---------------------------- MODULE Spec2Model ----------------------------
(***************************************************************************)
(* A model of the YOLO label annotation tool: the label record             *)
(* (models/yolo_label.py), the label files and the move to the target      *)
(* directory (utils/file_utils.py), and the hit-testing of the image       *)
(* viewer (utils/image_utils.py, ui/components/image_viewer.py).           *)
(*                                                                         *)
(* Numbers.  A Python float is modelled by an integer number of            *)
(* thousandths: 500 is 0.5, 1 is 0.001, 1000 is 1.0.  The values the model *)
(* draws are exact in that unit, and so are min, max, int() and the        *)
(* comparisons applied to them.                                            *)
(*                                                                         *)
(* Text.  A token of a label file is a sequence of one-character strings,  *)
(* a line is the sequence of its whitespace-separated tokens (what         *)
(* line.strip().split() returns), a label file is a sequence of lines.     *)
(*                                                                         *)
(* Paths.  A path is a record [dir, base, ext]: the directory components,  *)
(* the fragments of the file's base name and its extension.                *)
(*                                                                         *)
(* Files.  The file system maps the paths of the existing files to their   *)
(* content.  A call of the operating system that the code wraps in         *)
(* try/except, or whose result it verifies, may fail in the way the code   *)
(* handles: that is the fault an action draws.                             *)
(***************************************************************************)
EXTENDS Integers, Sequences, FiniteSets, TLC

VARIABLES
    labels,      \* YoloLabel.labels: the rows [class_id, cx, cy, w, h]
    modified,    \* YoloLabel.modified
    fs,          \* the files that exist, and their content
    source_dir,  \* the directory that holds images/ and labels/
    target_dir,  \* MainWindow.target_dir
    ops,         \* the number of record operations made so far
    ret,         \* the last call of the record: its name, its result, and
                 \* whether an os.unlink of the call raised
    pre,         \* the record and the files as they were before a move
    \* ImageViewerWidget, ui/components/image_viewer.py
    selected_bbox_index,
    is_dragging, dragging_point_index, dragging_bbox_index,
    original_cursor_pos, is_edge_dragging, dragging_edge_index,
    is_drawing_bbox, drawing_start_pos, drawing_current_pos,
    is_panning, last_pan_position,
    zoomed,      \* is_view_zoomed(): the view's transform scales above 1.01
    emitted,     \* the signals the last handler emitted, in order
    dragged_corners, \* x1, y1, x2, y2 the last handler renormalised, if it dragged
    event,       \* the last event of the view, and the mode it arrived in
    \* ImageListWidget, ui/components/image_list.py
    image_files, image_groups_by_id,
    current_group_id, current_group_index, current_image_idx,
    group_by_id, batch_selection_mode, batch_selected_items,
    tree,           \* image_treeview: its top-level items and their children
    current_item,   \* image_treeview.currentItem(), as the item's position
    selected_items, \* image_treeview.selectedItems(), as positions
    scanned,        \* what the last directory scan returned
    calls,          \* the number of calls of the list made so far
    called,         \* the last call of the list, and its argument
    signalled,      \* the signals the last call emitted, in order
    \* MainWindow, ui/main_window_new.py
    images_subdir, labels_subdir,
    folders,        \* the directories that exist
    dialog,         \* the message box the last handler showed, if any
    is_review_mode,
    disk,           \* the source images that exist, and their label files
    current_image,      \* image_viewer_widget.current_image, as its path
    current_yolo_label, \* image_viewer_widget.current_yolo_label
    copied          \* the images the last handler copied to the target

recordVars == <<labels, modified, fs, source_dir, target_dir, ops, ret, pre>>

dragVars ==
    <<is_dragging, dragging_point_index, dragging_bbox_index,
      original_cursor_pos, is_edge_dragging, dragging_edge_index>>

drawVars == <<is_drawing_bbox, drawing_start_pos, drawing_current_pos>>

panVars == <<is_panning, last_pan_position>>

viewerVars ==
    <<selected_bbox_index, dragVars, drawVars, panVars, zoomed, emitted,
      dragged_corners, event>>

catalogVars ==
    <<image_files, image_groups_by_id, current_group_id, current_group_index,
      current_image_idx, group_by_id, batch_selection_mode,
      batch_selected_items, tree, current_item, selected_items, scanned,
      calls, called, signalled>>

reviewVars ==
    <<is_review_mode, disk, current_image, current_yolo_label, copied>>

windowVars == <<images_subdir, labels_subdir, folders, dialog, reviewVars>>

vars == <<recordVars, viewerVars, catalogVars, windowVars>>

None == "None"

\* None where the code holds a position (a QPointF or a QPoint)
NoPos == <<>>

\* None where the code holds an item of the tree: currentItem(), parent()
NoItem == <<>>

\* None where the code holds a group id or a path; "" tests false like None
NoId == <<>>

\* "" where the code holds the text of a directory
NoDir == <<>>

\* no message box
NoDialog == "none"

\* a disk that holds no image
NoFiles == <<>>

\* MainWindow._init_state_variables and ImageViewerWidget.__init__: label
\* mode, no image shown
ReviewCreated ==
    /\ is_review_mode = FALSE
    /\ current_image = NoId
    /\ current_yolo_label = NoId
    /\ copied = {}

\* MainWindow._init_state_variables, where no directory is looked at
WindowCreated ==
    /\ images_subdir = NoDir
    /\ labels_subdir = NoDir
    /\ folders = {}
    /\ dialog = NoDialog
    /\ disk = NoFiles
    /\ ReviewCreated

\* ImageListWidget.__init__: no image, grouping on, an empty tree
CatalogCreated ==
    /\ image_files = <<>>
    /\ image_groups_by_id = <<>>
    /\ current_group_id = NoId
    /\ current_group_index = -1
    /\ current_image_idx = -1
    /\ group_by_id = TRUE
    /\ batch_selection_mode = FALSE
    /\ batch_selected_items = <<>>
    /\ tree = <<>>
    /\ current_item = NoItem
    /\ selected_items = {}
    /\ scanned = <<>>
    /\ calls = 0
    /\ called = <<"__init__">>
    /\ signalled = <<>>

----------------------------------------------------------------------------
(* Bounds of the model *)

\* the most rows a record holds
MaxRows == 2

\* the most operations made on one record
MaxOps == 2

\* how many events of the view a run follows
MaxEvents == 2

\* how many calls of the image list a run follows
MaxCalls == 5

\* the most files a directory lists, where the directories are enumerated
MaxFiles == 2

----------------------------------------------------------------------------
(* Python numbers and their text *)

Min(a, b) == IF a <= b THEN a ELSE b
Max(a, b) == IF a >= b THEN a ELSE b
Abs(a) == IF a < 0 THEN -a ELSE a

\* float(n) of an integer n, in thousandths
Float(n) == n * 1000

\* int(x): truncation towards zero
IntOf(x) == IF x >= 0 THEN x \div 1000 ELSE -((-x) \div 1000)

Digits == <<"0", "1", "2", "3", "4", "5", "6", "7", "8", "9">>

IsDigit(c) == \E n \in 1..10 : Digits[n] = c

DigitVal(c) == (CHOOSE n \in 1..10 : Digits[n] = c) - 1

RECURSIVE NatToChars(_)
NatToChars(n) ==
    IF n < 10 THEN <<Digits[n + 1]>>
    ELSE NatToChars(n \div 10) \o <<Digits[(n % 10) + 1]>>

RECURSIVE CharsToNat(_)
CharsToNat(s) ==
    IF s = <<>> THEN 0
    ELSE CharsToNat(SubSeq(s, 1, Len(s) - 1)) * 10 + DigitVal(s[Len(s)])

\* f"{int(x)}"
FormatInt(x) ==
    LET n == IntOf(x)
    IN  IF n < 0 THEN <<"-">> \o NatToChars(-n) ELSE NatToChars(n)

\* the digits after the point of repr(x): no trailing zero, at least one digit
FracChars(f) ==
    LET d1 == f \div 100
        d2 == (f \div 10) % 10
        d3 == f % 10
    IN  IF d3 # 0 THEN <<Digits[d1 + 1], Digits[d2 + 1], Digits[d3 + 1]>>
        ELSE IF d2 # 0 THEN <<Digits[d1 + 1], Digits[d2 + 1]>>
        ELSE <<Digits[d1 + 1]>>

\* f"{x:.2f}": two digits after the point, the third dropped
FormatFloatTwoDigits(x) ==
    LET a == Abs(x)
        f == (a % 1000) \div 10
        body == NatToChars(a \div 1000) \o <<".", Digits[(f \div 10) + 1], Digits[(f % 10) + 1]>>
    IN  IF x < 0 THEN <<"-">> \o body ELSE body

\* f"{x}" of a float: repr(x), e.g. 0.5, 1.0, -0.2, 0.001
FormatFloat(x) ==
    LET a == Abs(x)
        body == NatToChars(a \div 1000) \o <<".">> \o FracChars(a % 1000)
    IN  IF x < 0 THEN <<"-">> \o body ELSE body

\* the index of the first "." of s, 0 when there is none
RECURSIVE DotAt(_, _)
DotAt(s, i) ==
    IF i > Len(s) THEN 0
    ELSE IF s[i] = "." THEN i
    ELSE DotAt(s, i + 1)

\* the value of the digits after the point, in thousandths
FracVal(s) ==
    LET d(i) == IF i <= Len(s) THEN DigitVal(s[i]) ELSE 0
    IN  d(1) * 100 + d(2) * 10 + d(3)

\* whether float(tok) returns: [-]digits[.digits] with a digit somewhere
IsNumber(tok) ==
    LET body == IF tok # <<>> /\ tok[1] = "-" THEN Tail(tok) ELSE tok
        dot == DotAt(body, 1)
        ip == IF dot = 0 THEN body ELSE SubSeq(body, 1, dot - 1)
        fp == IF dot = 0 THEN <<>> ELSE SubSeq(body, dot + 1, Len(body))
    IN  /\ Len(ip) + Len(fp) > 0
        /\ \A i \in 1..Len(ip) : IsDigit(ip[i])
        /\ \A i \in 1..Len(fp) : IsDigit(fp[i])

\* float(tok)
ParseFloat(tok) ==
    LET neg == tok # <<>> /\ tok[1] = "-"
        body == IF neg THEN Tail(tok) ELSE tok
        dot == DotAt(body, 1)
        ip == IF dot = 0 THEN body ELSE SubSeq(body, 1, dot - 1)
        fp == IF dot = 0 THEN <<>> ELSE SubSeq(body, dot + 1, Len(body))
        v == CharsToNat(ip) * 1000 + FracVal(fp)
    IN  IF neg THEN -v ELSE v

----------------------------------------------------------------------------
(* Paths: os.path *)

Path(dir, base, ext) == [dir |-> dir, base |-> base, ext |-> ext]

\* os.path.join(directory, file name)
Join(dir, name) == [dir |-> dir, base |-> name.base, ext |-> name.ext]

\* os.path.basename(path)
Basename(p) == [base |-> p.base, ext |-> p.ext]

\* os.path.splitext(os.path.basename(path))[0]
BaseName(p) == p.base

\* the fragments of directory and file names that hold the letters "temp"
TempWords == {"yolo_draw_temp", "_temp", "temp_set"}

\* 'temp' in label_file and '.txt' in label_file
IsTempLabel(p) ==
    /\ \/ \E i \in 1..Len(p.dir) : p.dir[i] \in TempWords
       \/ \E i \in 1..Len(p.base) : p.base[i] \in TempWords
    /\ p.ext = ".txt"

\* config.LABEL_FILE_EXT
LABEL_FILE_EXT == ".txt"

\* tempfile.gettempdir()
TempDir == <<"tmp">>

\* resources/ship_types.json, read by config.get_ship_types()
ship_types == [k \in {"0", "1"} |-> IF k = "0" THEN "Tanker" ELSE "Cargo"]

\* ship_types.get(str(ship_type_id), f"未知类型_{ship_type_id}"), for the
\* str(ship_type_id) that the model gives as the id
ShipTypeName(id) ==
    IF id \in DOMAIN ship_types THEN ship_types[id] ELSE "unknown_type"

----------------------------------------------------------------------------
(* Files: os.path.exists, open(path, 'w'), os.unlink, shutil.copy2 *)

Exists(f, p) == p \in DOMAIN f

\* the file p created or replaced with the content c
WriteFile(f, p, c) ==
    [q \in DOMAIN f \cup {p} |-> IF q = p THEN c ELSE f[q]]

\* os.unlink(p)
Unlink(f, p) == [q \in DOMAIN f \ {p} |-> f[q]]

\* try: if os.path.exists(p): os.unlink(p) / except Exception: pass
\* raises says that os.unlink raised, which leaves the file
TryUnlink(f, p, raises) ==
    IF Exists(f, p) /\ ~raises THEN Unlink(f, p) ELSE f

\* shutil.move(src, dst): dst holds the content of src, which is gone
MoveFile(f, src, dst) == Unlink(WriteFile(f, dst, f[src]), src)

\* shutil.copy2(src, dst) that returns: dst holds the content of src
CopyFile(f, src, dst) == WriteFile(f, dst, f[src])

\* shutil.copy2 raises SameFileError when src and dst are one file
SameFile(src, dst) == src = dst

----------------------------------------------------------------------------
(* Label files: file_utils.read_label_file, file_utils.write_label_file *)

\* float(parts[0]), ..., float(parts[4])
ParseLine(parts) == [i \in 1..5 |-> ParseFloat(parts[i])]

\* the loop over the lines: a line of 5 fields is a row, any other line is
\* skipped; a field that float() rejects raises, and the except clause keeps
\* the rows read so far
RECURSIVE ReadLines(_, _)
ReadLines(lines, acc) ==
    IF lines = <<>> THEN acc
    ELSE LET parts == Head(lines)
         IN  IF Len(parts) = 5
             THEN IF \A i \in 1..5 : IsNumber(parts[i])
                  THEN ReadLines(Tail(lines), Append(acc, ParseLine(parts)))
                  ELSE acc
             ELSE ReadLines(Tail(lines), acc)

read_label_file(f, label_file) ==
    IF ~Exists(f, label_file) THEN <<>> ELSE ReadLines(f[label_file], <<>>)

\* f"{int(label[0])} {label[1]} {label[2]} {label[3]} {label[4]}\n"
FormatLine(label) ==
    <<FormatInt(label[1]), FormatFloat(label[2]), FormatFloat(label[3]),
      FormatFloat(label[4]), FormatFloat(label[5])>>

\* the lines written for the rows: a row that has not 5 fields writes nothing
RECURSIVE FormatLabels(_)
FormatLabels(rows) ==
    IF rows = <<>> THEN <<>>
    ELSE (IF Len(Head(rows)) = 5 THEN <<FormatLine(Head(rows))>> ELSE <<>>)
         \o FormatLabels(Tail(rows))

\* what a call that writes a file may do
WriteOutcomes == {"ok", "open_raises", "write_raises"}

\* write_label_file(label_file, rows): the files after the call and its result.
\* "open_raises": os.makedirs or open raised, the file is as it was;
\* "write_raises": open truncated the file and a write raised.
write_label_file(f, label_file, rows, outcome) ==
    CASE outcome = "ok" ->
           [fs |-> WriteFile(f, label_file, FormatLabels(rows)), ok |-> TRUE]
      [] outcome = "open_raises" ->
           [fs |-> f, ok |-> FALSE]
      [] OTHER ->
           [fs |-> WriteFile(f, label_file, <<>>), ok |-> FALSE]

----------------------------------------------------------------------------
(* file_utils.move_files_to_target *)

\* what the operating system may do during one move; see the steps below
MoveFaults ==
    {"none", "tempdir", "tempwrite", "mkdirs", "imgcopy",
     "lblcopy", "lblmissing", "lblshort", "lblclass"}

Result(f, ok, msg) == [fs |-> f, ok |-> ok, msg |-> msg]

\* the messages of move_files_to_target and of move_to_target
MsgNoPaths == "paths not set"                \* 图像或标签文件路径未设置
MsgImageMissing == "image file missing"      \* 图像文件不存在 / 源图像文件不存在
MsgLabelMissing == "label file missing"      \* 标签文件不存在 / 源标签文件不存在
MsgTempDir == "temp dir failed"              \* 创建临时目录失败
MsgTempFile == "temp file not created"       \* 临时标签文件创建失败
MsgMoveRaised == "move raised"               \* 移动文件时出错
MsgLabelEmpty == "label file empty"          \* 标签文件为空或读取失败
MsgImageCopy == "image copy raised"          \* 复制图像文件失败
MsgLabelWrite == "target label write failed" \* 写入目标标签文件失败
MsgLabelStep == "label step failed"          \* 标签文件处理失败 (no file)
MsgLabelRaised == "label step raised"        \* 处理标签文件失败 (exception)
MsgVerifyEmpty == "target label unreadable"  \* 目标标签文件验证失败
MsgVerifyCount == "target row count differs" \* 目标标签文件内容验证失败
MsgVerifyClass == "target class differs"     \* 标签 i 类别ID不一致
MsgOk == ""

\* step 3: the directory the files go to
TargetClassDir(target, ship_type_id) ==
    IF ship_type_id # None THEN target \o <<ShipTypeName(ship_type_id)>>
    ELSE target

\* the label file keeps its own name, a_temp.txt for a temp label file
TargetLabelPathOwnName(target_label_dir, image_file, label_file) ==
    Join(target_label_dir, Basename(label_file))

\* step 6: the label file's name comes from the image for a temp label file,
\* and is the label file's own name otherwise
TargetLabelPath(target_label_dir, image_file, label_file) ==
    IF IsTempLabel(label_file)
    THEN Join(target_label_dir,
              [base |-> BaseName(image_file), ext |-> LABEL_FILE_EXT])
    ELSE Join(target_label_dir, Basename(label_file))

\* a copy that returned but left fewer rows, or another class id in a row
Damaged(lines, fault) ==
    CASE fault = "lblshort" -> SubSeq(lines, 1, Len(lines) - 1)
      [] fault = "lblclass" ->
           [lines EXCEPT ![1] = [lines[1] EXCEPT ![1] = <<"9">>]]
      [] OTHER -> lines

\* steps 10 and 11: the row counts are equal and so is each row's int class id
RECURSIVE ClassesAgree(_, _)
ClassesAgree(source_labels, target_labels) ==
    IF source_labels = <<>> \/ target_labels = <<>> THEN TRUE
    ELSE /\ IntOf(Head(target_labels)[1]) = IntOf(Head(source_labels)[1])
         /\ ClassesAgree(Tail(source_labels), Tail(target_labels))

\* a verification that compares the row counts alone
VerifyLabelsCountOnly(source_labels, target_labels) ==
    IF target_labels = <<>> THEN MsgVerifyEmpty
    ELSE IF Len(target_labels) # Len(source_labels) THEN MsgVerifyCount
    ELSE MsgOk

\* steps 9 to 11: the message of the verification
VerifyLabels(source_labels, target_labels) ==
    IF target_labels = <<>> THEN MsgVerifyEmpty
    ELSE IF Len(target_labels) # Len(source_labels) THEN MsgVerifyCount
    ELSE IF ~ClassesAgree(source_labels, target_labels) THEN MsgVerifyClass
    ELSE MsgOk

\* the copied image left where it is
KeepImage(f, target_img_path, unlinkRaises) == f

\* the except clause of step 8 and the failed write of a temp label file:
\* the copied image is removed again
CleanupImage(f, target_img_path, unlinkRaises) ==
    TryUnlink(f, target_img_path, unlinkRaises)

\* step 8 and after, from the files f1 that hold the copied image
LabelStep(f1, label_file, source_labels, target_img_path, target_label_path, fault, unlinkRaises) ==
    IF IsTempLabel(label_file) /\ fault = "lblcopy"
    THEN Result(CleanupImage(f1, target_img_path, unlinkRaises), FALSE,
                MsgLabelWrite)
    ELSE IF ~IsTempLabel(label_file)
            /\ (fault = "lblcopy" \/ SameFile(label_file, target_label_path))
    THEN Result(CleanupImage(f1, target_img_path, unlinkRaises), FALSE,
                MsgLabelRaised)
    ELSE IF fault = "lblmissing"
    THEN Result(IF Exists(f1, target_label_path)
                THEN Unlink(f1, target_label_path) ELSE f1,
                FALSE, MsgLabelStep)
    ELSE LET lines == IF IsTempLabel(label_file)
                      THEN FormatLabels(source_labels)
                      ELSE f1[label_file]
             f2 == WriteFile(f1, target_label_path, Damaged(lines, fault))
             msg == VerifyLabels(source_labels,
                                 read_label_file(f2, target_label_path))
         IN  Result(f2, msg = MsgOk, msg)

move_files_to_target(f, image_file, label_file, target, ship_type_id, fault, unlinkRaises) ==
    IF ~Exists(f, image_file) THEN Result(f, FALSE, MsgImageMissing)
    ELSE IF ~Exists(f, label_file) THEN Result(f, FALSE, MsgLabelMissing)
    ELSE IF fault = "mkdirs" THEN Result(f, FALSE, MsgMoveRaised)
    ELSE LET tdir == TargetClassDir(target, ship_type_id)
             target_img_dir == tdir \o <<"images">>
             target_label_dir == tdir \o <<"labels">>
             source_labels == read_label_file(f, label_file)
             target_img_path == Join(target_img_dir, Basename(image_file))
             target_label_path ==
                 TargetLabelPath(target_label_dir, image_file, label_file)
         IN  IF source_labels = <<>> THEN Result(f, FALSE, MsgLabelEmpty)
             ELSE IF fault = "imgcopy" \/ SameFile(image_file, target_img_path)
             THEN Result(f, FALSE, MsgImageCopy)
             ELSE LabelStep(CopyFile(f, image_file, target_img_path),
                            label_file, source_labels, target_img_path,
                            target_label_path, fault, unlinkRaises)

----------------------------------------------------------------------------
(* models/yolo_label.py: class YoloLabel *)

\* the image a.jpg of the source directory and its label file
ImageName == [base |-> <<"a">>, ext |-> ".jpg"]

image_path == Join(source_dir \o <<"images">>, ImageName)

label_path ==
    Join(source_dir \o <<"labels">>,
         [base |-> BaseName(image_path), ext |-> LABEL_FILE_EXT])

\* os.path.join(temp_dir, f"{base_name}_temp.txt")
temp_label_path ==
    Join(TempDir \o <<"yolo_draw_temp">>,
         [base |-> BaseName(image_path) \o <<"_temp">>, ext |-> ".txt"])

\* max(0.0, min(1.0, x))
ClampCenter(x) == Max(0, Min(1000, x))

\* max(0.001, min(1.0, x))
ClampSize(x) == Max(1, Min(1000, x))

\* the row add_label appends
AddedRow(class_id, center_x, center_y, width, height) ==
    <<Float(class_id), center_x, center_y, width, height>>

\* the row update_label_coords stores at an index
UpdatedRow(row, center_x, center_y, width, height) ==
    <<row[1], ClampCenter(center_x), ClampCenter(center_y),
      ClampSize(width), ClampSize(height)>>

\* an index test that takes a negative index as list[index] does
InRangeFromEnd(index, rows) == -Len(rows) <= index /\ index < Len(rows)

\* if 0 <= index < len(self.labels), for the 1-based rows of the model
InRange(index, rows) == 0 <= index /\ index < Len(rows)

\* self.labels.pop(index)
Pop(rows, index) ==
    SubSeq(rows, 1, index) \o SubSeq(rows, index + 2, Len(rows))

\* self.modified cleared whatever the write returned
ModifiedCleared(success, was) == FALSE

\* self.modified after save_labels
ModifiedAfterSave(success, was) == IF success THEN FALSE ELSE was

\* an except clause that leaves the temp label file
NoCleanup(f, unlinkRaises) == f

\* the except clause of move_to_target: the temp label file is removed
CleanupOnException(f, unlinkRaises) ==
    TryUnlink(f, temp_label_path, unlinkRaises)

\* step 7 of move_to_target: the temp label file is removed
CleanupTemp(f, unlinkRaises) ==
    TryUnlink(f, temp_label_path, unlinkRaises)

\* a result of move_to_target, with whether the call wrote the temp label file
Returned(r, wrote) ==
    [fs |-> r.fs, ok |-> r.ok, msg |-> r.msg, wrote |-> wrote]

\* move_to_target: the files after the call, the result and its message
move_to_target(f, rows, dirty, target, ship_type_id, fault, unlinkRaises) ==
    IF ~Exists(f, image_path)
    THEN Returned(Result(f, FALSE, MsgImageMissing), FALSE)
    ELSE IF ~Exists(f, label_path)
    THEN Returned(Result(f, FALSE, MsgLabelMissing), FALSE)
    ELSE IF fault = "tempdir"
    THEN Returned(Result(f, FALSE, MsgTempDir), FALSE)
    ELSE IF dirty
    THEN IF fault = "tempwrite"
         THEN Returned(Result(CleanupOnException(WriteFile(f, temp_label_path, <<>>), unlinkRaises), FALSE, MsgMoveRaised), TRUE)
         ELSE LET f1 == WriteFile(f, temp_label_path, FormatLabels(rows))
                  r == move_files_to_target(f1, image_path, temp_label_path, target, ship_type_id, fault, unlinkRaises)
              IN  Returned(Result(CleanupTemp(r.fs, unlinkRaises), r.ok, r.msg), TRUE)
    ELSE Returned(move_files_to_target(f, image_path, label_path, target, ship_type_id, fault, unlinkRaises), FALSE)

----------------------------------------------------------------------------
(* The inputs the model draws *)

\* class ids given to add_label (the viewer's bbox_created passes -1)
AddClassIds == {-1}

\* class ids given to update_label_class
NewClassIds == {1}

\* (center_x, center_y, width, height) given to add_label and
\* update_label_coords: a box inside the image, and numbers outside [0, 1]
CoordInputs == {<<500, 500, 200, 200>>, <<1500, -200, 0, 1500>>}

\* indexes given to the record, one below and one above the rows included
Indexes == -1..MaxRows

\* str(ship_type_id) given to move_to_target: no id, and an id of the taxonomy
ShipTypeIds == {None, "0"}

\* the source and the target directory: apart; the target's class directory
\* being the source directory; a source directory with "temp" in its name
Directories ==
    { <<<<"D", "Tanker">>, <<"T">>>>,
      <<<<"D", "Tanker">>, <<"D">>>>,
      <<<<"D", "temp_set">>, <<"T">>>> }

\* the content of an image file
ImageBytes == << << <<"IMG">> >> >>

T0 == <<"0">>
T1 == <<"1">>
THalf == <<"0", ".", "5">>
TFifth == <<"0", ".", "2">>
TQuarter == <<"0", ".", "2", "5", "0">>

\* label files found in a source directory: no row, one row, a line of three
\* fields before a row, two rows of different classes
InitialFiles ==
    { <<>>,
      << <<T0, THalf, THalf, TFifth, TFifth>> >>,
      << <<T1, THalf, THalf>>, <<T0, THalf, THalf, TFifth, TFifth>> >>,
      << <<T1, TQuarter, THalf, TFifth, <<"1">> >>,
         <<T0, THalf, THalf, TFifth, TFifth>> >> }

----------------------------------------------------------------------------
(* ImageViewerWidget.__init__: no box selected, no mode active *)

NoEvent == [kind |-> "none", pos |-> NoPos, button |-> "none", drawing |-> FALSE, dragging |-> FALSE, panning |-> FALSE]

ViewerCreated ==
    /\ selected_bbox_index = -1
    /\ is_dragging = FALSE
    /\ dragging_point_index = -1
    /\ dragging_bbox_index = -1
    /\ original_cursor_pos = NoPos
    /\ is_edge_dragging = FALSE
    /\ dragging_edge_index = -1
    /\ is_drawing_bbox = FALSE
    /\ drawing_start_pos = NoPos
    /\ drawing_current_pos = NoPos
    /\ is_panning = FALSE
    /\ last_pan_position = NoPos
    /\ emitted = <<>>
    /\ dragged_corners = <<>>
    /\ event = NoEvent

----------------------------------------------------------------------------
(* The label record and its files: state and operations *)

NoPre == [labels |-> <<>>, modified |-> FALSE, fs |-> <<>>]

Ret(op, ok) ==
    [op |-> op, ok |-> ok, msg |-> "", id |-> None, unlink_raises |-> FALSE,
     wrote |-> FALSE, index |-> None]

\* the result of a call that was given an index
RetAt(op, ok, index) == [Ret(op, ok) EXCEPT !.index = index]

\* YoloLabel(image_path, label_path): __init__ calls load_labels
InitRecord ==
    /\ \E d \in Directories : source_dir = d[1] /\ target_dir = d[2]
    /\ \E present \in BOOLEAN, content \in InitialFiles :
          LET f0 == WriteFile(<<>>, image_path, ImageBytes)
          IN  /\ fs = IF present THEN WriteFile(f0, label_path, content)
                      ELSE f0
              /\ labels = IF present THEN ReadLines(content, <<>>) ELSE <<>>
    /\ modified = FALSE
    /\ ops = 0
    /\ ret = Ret("init", TRUE)
    /\ pre = NoPre
    /\ ViewerCreated
    /\ CatalogCreated
    /\ WindowCreated
    /\ zoomed = FALSE

Step == ops < MaxOps /\ ops' = ops + 1

load_labels ==
    /\ Step
    /\ LET rows == read_label_file(fs, label_path)
       IN  /\ labels' = IF rows # <<>> THEN rows ELSE labels
           /\ modified' = IF rows # <<>> THEN FALSE ELSE modified
           /\ ret' = Ret("load_labels", rows # <<>>)
    /\ pre' = NoPre
    /\ UNCHANGED <<fs, source_dir, target_dir>>
    /\ UNCHANGED <<viewerVars, catalogVars, windowVars>>

save_labels ==
    /\ Step
    /\ \E outcome \in WriteOutcomes :
          LET r == write_label_file(fs, label_path, labels, outcome)
          IN  /\ fs' = r.fs
              /\ modified' = ModifiedAfterSave(r.ok, modified)
              /\ ret' = Ret("save_labels", r.ok)
    /\ pre' = [NoPre EXCEPT !.modified = modified]
    /\ UNCHANGED <<labels, source_dir, target_dir>>
    /\ UNCHANGED <<viewerVars, catalogVars, windowVars>>

update_label_class ==
    /\ Step
    /\ \E index \in Indexes, new_class_id \in NewClassIds :
          IF InRange(index, labels)
          THEN /\ labels' = [labels EXCEPT ![index + 1][1] = Float(new_class_id)]
               /\ modified' = TRUE
               /\ ret' = RetAt("update_label_class", TRUE, index)
          ELSE /\ ret' = RetAt("update_label_class", FALSE, index)
               /\ UNCHANGED <<labels, modified>>
    /\ pre' = NoPre
    /\ UNCHANGED <<fs, source_dir, target_dir>>
    /\ UNCHANGED <<viewerVars, catalogVars, windowVars>>

add_label ==
    /\ Step
    /\ Len(labels) < MaxRows
    /\ \E class_id \in AddClassIds, c \in CoordInputs :
          labels' = Append(labels, AddedRow(class_id, c[1], c[2], c[3], c[4]))
    /\ modified' = TRUE
    /\ ret' = Ret("add_label", TRUE)
    /\ pre' = NoPre
    /\ UNCHANGED <<fs, source_dir, target_dir>>
    /\ UNCHANGED <<viewerVars, catalogVars, windowVars>>

remove_label ==
    /\ Step
    /\ \E index \in Indexes :
          IF InRange(index, labels)
          THEN /\ labels' = Pop(labels, index)
               /\ modified' = TRUE
               /\ ret' = RetAt("remove_label", TRUE, index)
          ELSE /\ ret' = RetAt("remove_label", FALSE, index)
               /\ UNCHANGED <<labels, modified>>
    /\ pre' = NoPre
    /\ UNCHANGED <<fs, source_dir, target_dir>>
    /\ UNCHANGED <<viewerVars, catalogVars, windowVars>>

update_label_coords ==
    /\ Step
    /\ \E index \in Indexes, c \in CoordInputs :
          IF InRange(index, labels)
          THEN /\ labels' = [labels EXCEPT ![index + 1] = UpdatedRow(@, c[1], c[2], c[3], c[4])]
               /\ modified' = TRUE
               /\ ret' = RetAt("update_label_coords", TRUE, index)
          ELSE /\ ret' = RetAt("update_label_coords", FALSE, index)
               /\ UNCHANGED <<labels, modified>>
    /\ pre' = NoPre
    /\ UNCHANGED <<fs, source_dir, target_dir>>
    /\ UNCHANGED <<viewerVars, catalogVars, windowVars>>

MoveToTarget ==
    /\ Step
    /\ \E ship_type_id \in ShipTypeIds, fault \in MoveFaults, unlinkRaises \in BOOLEAN :
          LET r == move_to_target(fs, labels, modified, target_dir, ship_type_id, fault, unlinkRaises)
              clean == move_to_target(fs, labels, modified, target_dir, ship_type_id, fault, FALSE)
          IN  /\ fs' = r.fs
              /\ ret' = [op |-> "move_to_target", ok |-> r.ok, msg |-> r.msg,
                         id |-> ship_type_id, index |-> None,
                         unlink_raises |-> unlinkRaises /\ DOMAIN r.fs # DOMAIN clean.fs,
                         wrote |-> r.wrote]
    /\ pre' = [labels |-> labels, modified |-> modified, fs |-> fs]
    /\ UNCHANGED <<labels, modified, source_dir, target_dir>>
    /\ UNCHANGED <<viewerVars, catalogVars, windowVars>>

NextRecord ==
    \/ load_labels
    \/ save_labels
    \/ update_label_class
    \/ add_label
    \/ remove_label
    \/ update_label_coords
    \/ MoveToTarget

SpecRecord == InitRecord /\ [][NextRecord]_vars

----------------------------------------------------------------------------
(* utils/image_utils.py: which box the pointer is on *)

\* self.current_image.size, (width, height) in pixels
image_size == <<500, 250>>

\* Lengths along an axis are held in units of 1/2000 pixel, so that
\* center * size and size / 2 of a row in thousandths are whole numbers.
Px(n) == n * 2000

\* center_x * img_width, and box_width / 2 for box_width = width * img_width
Scaled(norm, size) == norm * size * 2
HalfScaled(norm, size) == norm * size

\* x1, y1, x2, y2 of a row
Corners(label, size) ==
    LET x_center == Scaled(label[2], size[1])
        y_center == Scaled(label[3], size[2])
    IN  [x1 |-> x_center - HalfScaled(label[4], size[1]),
         y1 |-> y_center - HalfScaled(label[5], size[2]),
         x2 |-> x_center + HalfScaled(label[4], size[1]),
         y2 |-> y_center + HalfScaled(label[5], size[2])]

corner_sensitivity == 15

edge_sensitivity == 10

\* the result of a hit test that found nothing: None, or (None, None)
NoHit == <<>>

\* if x1 <= pos_x <= x2 and y1 <= pos_y <= y2
InBox(pos, b) ==
    /\ b.x1 <= Px(pos[1]) /\ Px(pos[1]) <= b.x2
    /\ b.y1 <= Px(pos[2]) /\ Px(pos[2]) <= b.y2

\* the four tests of get_bbox_corner_at_position on one row, in their order
CornerOfBox(pos, b) ==
    LET near(v, c) == Abs(Px(v) - c) <= Px(corner_sensitivity)
    IN  IF near(pos[1], b.x1) /\ near(pos[2], b.y1) THEN <<0>>
        ELSE IF near(pos[1], b.x2) /\ near(pos[2], b.y1) THEN <<1>>
        ELSE IF near(pos[1], b.x2) /\ near(pos[2], b.y2) THEN <<2>>
        ELSE IF near(pos[1], b.x1) /\ near(pos[2], b.y2) THEN <<3>>
        ELSE NoHit

\* the four tests of get_bbox_edge_at_position on one row, in their order
EdgeOfBox(pos, b) ==
    LET near(v, c) == Abs(Px(v) - c) <= Px(edge_sensitivity)
        spanX == b.x1 <= Px(pos[1]) /\ Px(pos[1]) <= b.x2
        spanY == b.y1 <= Px(pos[2]) /\ Px(pos[2]) <= b.y2
    IN  IF near(pos[2], b.y1) /\ spanX THEN <<0>>
        ELSE IF near(pos[1], b.x2) /\ spanY THEN <<1>>
        ELSE IF near(pos[2], b.y2) /\ spanX THEN <<2>>
        ELSE IF near(pos[1], b.x1) /\ spanY THEN <<3>>
        ELSE NoHit

\* for i, label in enumerate(labels): the rows from i on, i counted from 0
RECURSIVE BboxScanLast(_, _, _, _)
BboxScanLast(pos, rows, size, i) ==
    IF i >= Len(rows) THEN NoHit
    ELSE LET rest == BboxScanLast(pos, rows, size, i + 1)
         IN  IF rest # NoHit THEN rest
             ELSE IF Len(rows[i + 1]) = 5 /\ InBox(pos, Corners(rows[i + 1], size))
                  THEN <<i>> ELSE NoHit

RECURSIVE BboxScan(_, _, _, _)
BboxScan(pos, rows, size, i) ==
    IF i >= Len(rows) THEN NoHit
    ELSE IF Len(rows[i + 1]) # 5 THEN BboxScan(pos, rows, size, i + 1)
    ELSE IF InBox(pos, Corners(rows[i + 1], size)) THEN <<i>>
    ELSE BboxScan(pos, rows, size, i + 1)

RECURSIVE CornerScan(_, _, _, _)
CornerScan(pos, rows, size, i) ==
    IF i >= Len(rows) THEN NoHit
    ELSE IF Len(rows[i + 1]) # 5 THEN CornerScan(pos, rows, size, i + 1)
    ELSE LET c == CornerOfBox(pos, Corners(rows[i + 1], size))
         IN  IF c # NoHit THEN <<i, c[1]>>
             ELSE CornerScan(pos, rows, size, i + 1)

RECURSIVE EdgeScan(_, _, _, _)
EdgeScan(pos, rows, size, i) ==
    IF i >= Len(rows) THEN NoHit
    ELSE IF Len(rows[i + 1]) # 5 THEN EdgeScan(pos, rows, size, i + 1)
    ELSE LET e == EdgeOfBox(pos, Corners(rows[i + 1], size))
         IN  IF e # NoHit THEN <<i, e[1]>>
             ELSE EdgeScan(pos, rows, size, i + 1)

\* <<i>> for the row index i, NoHit for None
get_bbox_at_position(pos, rows, size) ==
    IF rows = <<>> THEN NoHit ELSE BboxScan(pos, rows, size, 0)

\* <<i, corner>>, NoHit for (None, None)
get_bbox_corner_at_position(pos, rows, size) ==
    IF rows = <<>> THEN NoHit ELSE CornerScan(pos, rows, size, 0)

\* <<i, edge>>, NoHit for (None, None)
get_bbox_edge_at_position(pos, rows, size) ==
    IF rows = <<>> THEN NoHit ELSE EdgeScan(pos, rows, size, 0)

----------------------------------------------------------------------------
(* ui/components/image_viewer.py: the pointer handlers of the view *)

\* event.button()
Buttons == {"left", "right", "middle"}

\* The pointer in image pixels (adjusted_pos): on the corners, the edge bands
\* and the interiors of the boxes below, on the rims of the bands and one
\* pixel beyond them, and off every box.
Pointers ==
    {<<100, 75>>, <<200, 75>>, <<200, 175>>, <<100, 175>>,
     <<115, 90>>, <<116, 90>>, <<150, 85>>, <<150, 86>>,
     <<205, 125>>, <<100, 125>>, <<150, 175>>, <<150, 125>>,
     <<300, 125>>, <<300, 30>>, <<250, 125>>, <<450, 225>>,
     <<40, 125>>, <<35, 10>>, <<0, 0>>, <<505, 255>>}

\* rows of a label file: a wide box, a box inside it, the same box 10 px to
\* the right, a box smaller than a pixel and a box of 20 px around it
BoxWide == <<Float(0), 500, 500, 800, 800>>
BoxA == <<Float(1), 300, 500, 200, 400>>
BoxA2 == <<Float(0), 320, 500, 200, 400>>
BoxDot == <<Float(0), 500, 500, 1, 1>>
BoxSmall == <<Float(1), 500, 500, 40, 80>>

Layouts ==
    {<<>>, <<BoxDot>>, <<BoxWide, BoxA>>, <<BoxA, BoxWide>>,
     <<BoxA, BoxA2>>, <<BoxA2, BoxA>>, <<BoxSmall, BoxDot>>}

\* event.pos(), the pointer in view coordinates, of the event at an image position
EventPos(pos) == <<"view", pos[1], pos[2]>>

\* the fields of the widget as one record
Viewer ==
    [selected_bbox_index |-> selected_bbox_index,
     is_dragging |-> is_dragging,
     dragging_point_index |-> dragging_point_index,
     dragging_bbox_index |-> dragging_bbox_index,
     original_cursor_pos |-> original_cursor_pos,
     is_edge_dragging |-> is_edge_dragging,
     dragging_edge_index |-> dragging_edge_index,
     is_drawing_bbox |-> is_drawing_bbox,
     drawing_start_pos |-> drawing_start_pos,
     drawing_current_pos |-> drawing_current_pos,
     is_panning |-> is_panning,
     last_pan_position |-> last_pan_position,
     emitted |-> <<>>,
     dragged_corners |-> <<>>]

ViewerBecomes(v) ==
    /\ selected_bbox_index' = v.selected_bbox_index
    /\ is_dragging' = v.is_dragging
    /\ dragging_point_index' = v.dragging_point_index
    /\ dragging_bbox_index' = v.dragging_bbox_index
    /\ original_cursor_pos' = v.original_cursor_pos
    /\ is_edge_dragging' = v.is_edge_dragging
    /\ dragging_edge_index' = v.dragging_edge_index
    /\ is_drawing_bbox' = v.is_drawing_bbox
    /\ drawing_start_pos' = v.drawing_start_pos
    /\ drawing_current_pos' = v.drawing_current_pos
    /\ is_panning' = v.is_panning
    /\ last_pan_position' = v.last_pan_position
    /\ emitted' = v.emitted
    /\ dragged_corners' = v.dragged_corners

\* the event as the claims see it: what arrived, and the mode it arrived in
Event(kind, pos, button) ==
    [kind |-> kind, pos |-> pos, button |-> button,
     drawing |-> is_drawing_bbox, dragging |-> is_dragging, panning |-> is_panning]

\* if self.is_view_zoomed() and event.button() == Qt.MouseButton.LeftButton
StartPanning(v, pos, button) ==
    IF zoomed /\ button = "left"
    THEN [v EXCEPT !.is_panning = TRUE, !.last_pan_position = EventPos(pos)]
    ELSE v

\* The three tests of a press outside drawing, in the order an edge-first
\* handler would make them.
HitAtEdgeFirst(pos, rows) ==
    LET corner == get_bbox_corner_at_position(pos, rows, image_size)
        edge == get_bbox_edge_at_position(pos, rows, image_size)
        bbox == get_bbox_at_position(pos, rows, image_size)
    IN  IF edge # NoHit THEN [kind |-> "edge", bbox |-> edge[1], part |-> edge[2]]
        ELSE IF corner # NoHit THEN [kind |-> "corner", bbox |-> corner[1], part |-> corner[2]]
        ELSE IF bbox # NoHit THEN [kind |-> "inside", bbox |-> bbox[1], part |-> -1]
        ELSE [kind |-> "none", bbox |-> -1, part |-> -1]

\* The three tests of a press outside drawing, in the order the handler makes
\* them: the first that finds a row decides what the press starts.
HitAt(pos, rows) ==
    LET corner == get_bbox_corner_at_position(pos, rows, image_size)
        edge == get_bbox_edge_at_position(pos, rows, image_size)
        bbox == get_bbox_at_position(pos, rows, image_size)
    IN  IF corner # NoHit THEN [kind |-> "corner", bbox |-> corner[1], part |-> corner[2]]
        ELSE IF edge # NoHit THEN [kind |-> "edge", bbox |-> edge[1], part |-> edge[2]]
        ELSE IF bbox # NoHit THEN [kind |-> "inside", bbox |-> bbox[1], part |-> -1]
        ELSE [kind |-> "none", bbox |-> -1, part |-> -1]

\* on_graphics_view_click with an image and its labels loaded and drawn
Clicked(v, rows, pos, button) ==
    LET hit == HitAt(pos, rows)
        bbox_index == get_bbox_at_position(pos, rows, image_size)
    IN  IF button = "right"
        THEN IF bbox_index # NoHit
             THEN [v EXCEPT !.emitted = <<<<"show_class_menu_requested", bbox_index[1]>>>>]
             ELSE v
        ELSE IF v.is_drawing_bbox
        THEN [v EXCEPT !.drawing_start_pos = pos]
        ELSE IF hit.kind = "corner"
        THEN [v EXCEPT !.is_dragging = TRUE,
                       !.dragging_bbox_index = hit.bbox,
                       !.dragging_point_index = hit.part,
                       !.original_cursor_pos = pos,
                       !.selected_bbox_index = hit.bbox,
                       !.emitted = <<<<"bbox_selected", hit.bbox>>>>]
        ELSE IF hit.kind = "edge"
        THEN [v EXCEPT !.is_dragging = TRUE,
                       !.is_edge_dragging = TRUE,
                       !.dragging_bbox_index = hit.bbox,
                       !.dragging_edge_index = hit.part,
                       !.original_cursor_pos = pos,
                       !.selected_bbox_index = hit.bbox,
                       !.emitted = <<<<"bbox_selected", hit.bbox>>>>]
        ELSE IF hit.kind = "inside"
        THEN StartPanning([v EXCEPT !.selected_bbox_index = hit.bbox,
                                    !.emitted = <<<<"bbox_selected", hit.bbox>>>>],
                          pos, button)
        ELSE StartPanning([v EXCEPT !.selected_bbox_index = -1], pos, button)

\* one more event of the view
Happens == ops < MaxEvents /\ ops' = ops + 1

on_graphics_view_click ==
    /\ Happens
    /\ \E pos \in Pointers, button \in Buttons :
          /\ ViewerBecomes(Clicked(Viewer, labels, pos, button))
          /\ event' = Event("press", pos, button)
    /\ UNCHANGED <<labels, modified, fs, source_dir, target_dir, ret, pre, zoomed>>
    /\ UNCHANGED <<catalogVars, windowVars>>

\* self.is_drawing_bbox = False and both positions None
DrawingReset(v) ==
    [v EXCEPT !.is_drawing_bbox = FALSE,
              !.drawing_start_pos = NoPos,
              !.drawing_current_pos = NoPos]

\* the reset at the end of on_graphics_view_release
DraggingReset(v) ==
    [v EXCEPT !.is_dragging = FALSE,
              !.dragging_point_index = -1,
              !.dragging_bbox_index = -1,
              !.is_edge_dragging = FALSE,
              !.dragging_edge_index = -1,
              !.original_cursor_pos = NoPos]

\* The box between the two positions, whatever its size.
DrawnBoxAnySize(start, current, size) ==
    LET x1 == Min(start[1], current[1])
        y1 == Min(start[2], current[2])
        x2 == Max(start[1], current[1])
        y2 == Max(start[2], current[2])
    IN  <<((x1 + x2) * 1000) \div (2 * size[1]),
          ((y1 + y2) * 1000) \div (2 * size[2]),
          ((x2 - x1) * 1000) \div size[1],
          ((y2 - y1) * 1000) \div size[2]>>

\* _finish_drawing_bbox: the box between the two positions, as
\* <<center_x, center_y, width, height>>, or NoHit for one under 5 px a side
DrawnBox(start, current, size) ==
    LET x1 == Min(start[1], current[1])
        y1 == Min(start[2], current[2])
        x2 == Max(start[1], current[1])
        y2 == Max(start[2], current[2])
    IN  IF (x2 - x1) < 5 \/ (y2 - y1) < 5 THEN NoHit
        ELSE <<((x1 + x2) * 1000) \div (2 * size[1]),
               ((y1 + y2) * 1000) \div (2 * size[2]),
               ((x2 - x1) * 1000) \div size[1],
               ((y2 - y1) * 1000) \div size[2]>>

\* A drag that ends without a signal.
DragEndedSilently(v, rows) == <<>>

\* _finish_bbox_dragging: the signal of a drag that ends, if its row is there
DragEnded(v, rows) ==
    IF InRange(v.dragging_bbox_index, rows) /\ Len(rows[v.dragging_bbox_index + 1]) = 5
    THEN LET label == rows[v.dragging_bbox_index + 1]
         IN  <<<<"bbox_modified", v.dragging_bbox_index, label[2], label[3], label[4], label[5]>>>>
    ELSE <<>>

\* on_graphics_view_release, the widget's side
Released(v, rows) ==
    IF v.is_panning
    THEN [v EXCEPT !.is_panning = FALSE, !.last_pan_position = NoPos]
    ELSE IF v.is_drawing_bbox /\ v.drawing_start_pos # NoPos /\ v.drawing_current_pos # NoPos
    THEN LET box == DrawnBox(v.drawing_start_pos, v.drawing_current_pos, image_size)
         IN  [DrawingReset(v) EXCEPT !.emitted =
                 IF box = NoHit THEN <<>>
                 ELSE <<<<"bbox_created", -1, box[1], box[2], box[3], box[4]>>,
                        <<"show_class_menu_requested", Len(rows)>>>>]
    ELSE [DraggingReset(v) EXCEPT !.emitted =
             IF v.is_dragging /\ v.dragging_bbox_index >= 0
             THEN DragEnded(v, rows) ELSE <<>>]

\* main_window_new.py, on_bbox_created and on_bbox_modified: the rows after
\* the slot of a signal has run
RowsAfter(rows, signal) ==
    IF signal[1] = "bbox_created"
    THEN Append(rows, AddedRow(signal[2], signal[3], signal[4], signal[5], signal[6]))
    ELSE IF signal[1] = "bbox_modified" /\ InRange(signal[2], rows)
    THEN [rows EXCEPT ![signal[2] + 1] =
             UpdatedRow(@, signal[3], signal[4], signal[5], signal[6])]
    ELSE rows

\* whether the slot of a signal marks the record modified
Modifies(rows, signal) ==
    \/ signal[1] = "bbox_created"
    \/ signal[1] = "bbox_modified" /\ InRange(signal[2], rows)

\* on_graphics_view_release with the slots of its signals, for one outcome
\* of the save
ReleasedAndSaved(outcome) ==
    /\    LET v == Released(Viewer, labels)
              signal == IF v.emitted = <<>> THEN <<"none">> ELSE v.emitted[1]
              rows == RowsAfter(labels, signal)
              dirty == modified \/ Modifies(labels, signal)
              \* _save_current_labels: saves a record that is modified
              saved == IF dirty /\ signal[1] \in {"bbox_created", "bbox_modified"}
                       THEN write_label_file(fs, label_path, rows, outcome)
                       ELSE [fs |-> fs, ok |-> FALSE]
          IN  /\ ViewerBecomes(v)
              /\ labels' = rows
              /\ fs' = saved.fs
              /\ modified' = ModifiedAfterSave(saved.ok, dirty)
              /\ event' = Event("release", NoPos, "none")
    /\ UNCHANGED <<source_dir, target_dir, ret, pre, zoomed>>
    /\ UNCHANGED <<catalogVars, windowVars>>

on_graphics_view_release ==
    /\ Happens
    /\ \E outcome \in WriteOutcomes : ReleasedAndSaved(outcome)

\* start_drawing_bbox, from the add-box button or its shortcut
start_drawing_bbox ==
    /\ Happens
    /\ ViewerBecomes([Viewer EXCEPT !.is_drawing_bbox = TRUE,
                                    !.drawing_start_pos = NoPos,
                                    !.drawing_current_pos = NoPos])
    /\ event' = Event("add_box", NoPos, "none")
    /\ UNCHANGED <<labels, modified, fs, source_dir, target_dir, ret, pre, zoomed>>
    /\ UNCHANGED <<catalogVars, windowVars>>

\* CustomGraphicsView.wheelEvent: the view scales by 1.15 or by 1/1.15, and
\* is_view_zoomed() tells whether its scale is above 1.01.  A step up leaves a
\* zoomed view zoomed, a step down leaves an unzoomed view unzoomed.
wheelEvent ==
    /\ Happens
    /\ \E up \in BOOLEAN, above \in BOOLEAN :
          zoomed' = IF up THEN (zoomed \/ above) ELSE (zoomed /\ above)
    /\ ViewerBecomes(Viewer)
    /\ event' = Event("wheel", NoPos, "none")
    /\ UNCHANGED <<labels, modified, fs, source_dir, target_dir, ret, pre>>
    /\ UNCHANGED <<catalogVars, windowVars>>

\* an image and its label file, loaded into a new widget; fitInView scales
\* the view to the image, above 1.01 for an image smaller than the view
InitViewer ==
    /\ source_dir = <<"D", "Tanker">>
    /\ target_dir = <<"T">>
    /\ \E rows \in Layouts :
          /\ labels = rows
          /\ fs = LET f0 == WriteFile(<<>>, image_path, ImageBytes)
                  IN  IF rows = <<>> THEN f0
                      ELSE WriteFile(f0, label_path, FormatLabels(rows))
    /\ modified = FALSE
    /\ ops = 0
    /\ ret = Ret("init", TRUE)
    /\ pre = NoPre
    /\ ViewerCreated
    /\ CatalogCreated
    /\ WindowCreated
    /\ zoomed \in BOOLEAN

NextViewer ==
    \/ on_graphics_view_click
    \/ on_graphics_view_release
    \/ start_drawing_bbox
    \/ wheelEvent

SpecViewer == InitViewer /\ [][NextViewer]_vars

----------------------------------------------------------------------------
(* ui/components/image_viewer.py: pointer motion, and whole gestures *)

\* how many events of the view a gesture run follows
MaxGesture == 4

\* max(0, min(img_width, current_x)), in units of 1/2000 pixel
ClampToImage(p, size) == Max(0, Min(Px(size), Px(p)))

\* the side an edge drag moves to the pointer: 0 = top, 1 = right,
\* 2 = bottom, 3 = left; another index moves nothing
EdgeMoved(b, edge_idx, x, y) ==
    IF edge_idx = 0 THEN [b EXCEPT !.y1 = y]
    ELSE IF edge_idx = 1 THEN [b EXCEPT !.x2 = x]
    ELSE IF edge_idx = 2 THEN [b EXCEPT !.y2 = y]
    ELSE IF edge_idx = 3 THEN [b EXCEPT !.x1 = x]
    ELSE b

\* the corner a corner drag moves to the pointer: 0 = top-left,
\* 1 = top-right, 2 = bottom-right, 3 = bottom-left
CornerMoved(b, corner_idx, x, y) ==
    IF corner_idx = 0 THEN [b EXCEPT !.x1 = x, !.y1 = y]
    ELSE IF corner_idx = 1 THEN [b EXCEPT !.x2 = x, !.y1 = y]
    ELSE IF corner_idx = 2 THEN [b EXCEPT !.x2 = x, !.y2 = y]
    ELSE IF corner_idx = 3 THEN [b EXCEPT !.x1 = x, !.y2 = y]
    ELSE b

\* A drag that forces nothing.
Unforced(b) == b

\* if x2 <= x1: x2 = x1 + 1, and the same for y
Forced(b) ==
    [b EXCEPT !.x2 = IF b.x2 <= b.x1 THEN b.x1 + Px(1) ELSE b.x2,
              !.y2 = IF b.y2 <= b.y1 THEN b.y1 + Px(1) ELSE b.y2]

\* (x1 + x2) / 2 / img_width and (x2 - x1) / img_width, to the thousandth
\* the rows are held in
Renormalised(b, size) ==
    <<(b.x1 + b.x2) \div (4 * size[1]),
      (b.y1 + b.y2) \div (4 * size[2]),
      (b.x2 - b.x1) \div (2 * size[1]),
      (b.y2 - b.y1) \div (2 * size[2])>>

\* _handle_bbox_dragging: the corners it renormalises, NoHit when it returns early
DraggedTo(v, rows, pos) ==
    IF v.dragging_bbox_index >= Len(rows) THEN NoHit
    ELSE IF Len(rows[v.dragging_bbox_index + 1]) # 5 THEN NoHit
    ELSE LET x == ClampToImage(pos[1], image_size[1])
             y == ClampToImage(pos[2], image_size[2])
             b == Corners(rows[v.dragging_bbox_index + 1], image_size)
         IN  Forced(IF v.is_edge_dragging
                    THEN EdgeMoved(b, v.dragging_edge_index, x, y)
                    ELSE CornerMoved(b, v.dragging_point_index, x, y))

\* which branch of on_graphics_view_move runs
MoveBranch(v) ==
    IF v.is_panning /\ v.last_pan_position # NoPos THEN "pan"
    ELSE IF v.is_drawing_bbox /\ v.drawing_start_pos # NoPos THEN "draw"
    ELSE IF v.is_dragging /\ v.dragging_bbox_index >= 0 THEN "drag"
    ELSE "cursor"

\* on_graphics_view_move, the widget's fields
PointerMoved(v, rows, pos) ==
    CASE MoveBranch(v) = "pan" ->
           [v EXCEPT !.last_pan_position = EventPos(pos)]
      [] MoveBranch(v) = "draw" ->
           [v EXCEPT !.drawing_current_pos =
               <<Max(0, Min(image_size[1], pos[1])), Max(0, Min(image_size[2], pos[2]))>>]
      [] MoveBranch(v) = "drag" ->
           LET b == DraggedTo(v, rows, pos)
           IN  [v EXCEPT !.dragged_corners =
                   IF b = NoHit THEN <<>> ELSE <<b.x1, b.y1, b.x2, b.y2>>]
      [] OTHER -> v

\* on_graphics_view_move, the rows: update_label_coords of the dragged row
RowsMoved(v, rows, pos) ==
    LET b == DraggedTo(v, rows, pos)
    IN  IF MoveBranch(v) = "drag" /\ b # NoHit
        THEN LET c == Renormalised(b, image_size)
             IN  [rows EXCEPT ![v.dragging_bbox_index + 1] =
                     UpdatedRow(@, c[1], c[2], c[3], c[4])]
        ELSE rows

\* on_graphics_view_move with the pointer at an image position
MovedTo(pos) ==
    /\ ViewerBecomes(PointerMoved(Viewer, labels, pos))
    /\ labels' = RowsMoved(Viewer, labels, pos)
    /\ modified' = (modified \/ (MoveBranch(Viewer) = "drag"
                                 /\ DraggedTo(Viewer, labels, pos) # NoHit
                                 /\ InRange(dragging_bbox_index, labels)))
    /\ event' = Event("move", pos, "none")
    /\ UNCHANGED <<fs, source_dir, target_dir, ret, pre, zoomed>>
    /\ UNCHANGED <<catalogVars, windowVars>>

\* on_graphics_view_click with a button at an image position
ClickedAt(pos, button) ==
    /\ ViewerBecomes(Clicked(Viewer, labels, pos, button))
    /\ event' = Event("press", pos, button)
    /\ UNCHANGED <<labels, modified, fs, source_dir, target_dir, ret, pre, zoomed>>
    /\ UNCHANGED <<catalogVars, windowVars>>

\* The pointer of a gesture: on a corner of BoxA, on its right edge, on
\* BoxDot, and outside the image.
GesturePointers == {<<100, 75>>, <<205, 125>>, <<250, 125>>, <<505, 255>>}

GestureButtons == {"left", "right"}

\* one more event of a gesture
GestureStep == ops < MaxGesture /\ ops' = ops + 1

GesturePress ==
    /\ GestureStep
    /\ \E pos \in GesturePointers, button \in GestureButtons : ClickedAt(pos, button)

GestureMove ==
    /\ GestureStep
    /\ \E pos \in GesturePointers : MovedTo(pos)

GestureRelease ==
    /\ GestureStep
    /\ \E outcome \in WriteOutcomes : ReleasedAndSaved(outcome)

\* the add-box button, or its shortcut, at any point of a gesture
GestureAddBox ==
    /\ GestureStep
    /\ ViewerBecomes([Viewer EXCEPT !.is_drawing_bbox = TRUE,
                                    !.drawing_start_pos = NoPos,
                                    !.drawing_current_pos = NoPos])
    /\ event' = Event("add_box", NoPos, "none")
    /\ UNCHANGED <<labels, modified, fs, source_dir, target_dir, ret, pre, zoomed>>
    /\ UNCHANGED <<catalogVars, windowVars>>

InitGesture ==
    /\ source_dir = <<"D", "Tanker">>
    /\ target_dir = <<"T">>
    /\ labels = <<BoxA, BoxDot>>
    /\ fs = WriteFile(WriteFile(<<>>, image_path, ImageBytes),
                      label_path, FormatLabels(<<BoxA, BoxDot>>))
    /\ modified = FALSE
    /\ ops = 0
    /\ ret = Ret("init", TRUE)
    /\ pre = NoPre
    /\ ViewerCreated
    /\ CatalogCreated
    /\ WindowCreated
    /\ zoomed \in BOOLEAN

NextGesture ==
    \/ GesturePress
    \/ GestureMove
    \/ GestureRelease
    \/ GestureAddBox

SpecGesture == InitGesture /\ [][NextGesture]_vars

----------------------------------------------------------------------------
(* ui/components/image_list.py: file names, group ids and versions *)

(* A file name is the sequence of its characters.  The image files of a    *)
(* scan all lie in images_subdir, so a path of the list is modelled by its *)
(* file name: os.path.basename(path), and the order of two paths is the    *)
(* order of their names.                                                   *)

\* ord(c), for the characters of the file names
Ord(c) ==
    CASE c = " " -> 32 [] c = "(" -> 40 [] c = ")" -> 41 [] c = "+" -> 43
      [] c = "-" -> 45 [] c = "." -> 46 [] c = ":" -> 58 [] c = "_" -> 95
      [] c = "a" -> 97 [] c = "b" -> 98 [] c = "c" -> 99 [] c = "g" -> 103
      [] c = "j" -> 106 [] c = "p" -> 112 [] c = "t" -> 116 [] c = "v" -> 118
      [] c = "x" -> 120
      [] OTHER -> 48 + DigitVal(c)

\* s < t for two str
RECURSIVE StrLess(_, _)
StrLess(s, t) ==
    IF t = <<>> THEN FALSE
    ELSE IF s = <<>> THEN TRUE
    ELSE IF Head(s) = Head(t) THEN StrLess(Tail(s), Tail(t))
    ELSE Ord(Head(s)) < Ord(Head(t))

RECURSIVE InsertName(_, _)
InsertName(names, x) ==
    IF names = <<>> THEN <<x>>
    ELSE IF StrLess(x, Head(names)) THEN <<x>> \o names
    ELSE <<Head(names)>> \o InsertName(Tail(names), x)

\* sorted(names)
RECURSIVE sorted(_)
sorted(names) ==
    IF names = <<>> THEN <<>>
    ELSE InsertName(sorted(SubSeq(names, 1, Len(names) - 1)), names[Len(names)])

\* s.find('_v', i): the index of the first "_v" of s from i on, 0 for none
RECURSIVE FindV(_, _)
FindV(s, i) ==
    IF i + 1 > Len(s) THEN 0
    ELSE IF s[i] = "_" /\ s[i + 1] = "v" THEN i
    ELSE FindV(s, i + 1)

\* '_v' in filename
HasV(name) == FindV(name, 1) # 0

\* filename.split('_v')[0]
BeforeV(name) == SubSeq(name, 1, FindV(name, 1) - 1)

\* filename.split('_v')[1]: up to the next '_v', or to the end
AfterV(name) ==
    LET from == FindV(name, 1) + 2
        next == FindV(name, from)
    IN  SubSeq(name, from, IF next = 0 THEN Len(name) ELSE next - 1)

\* text.split(".")[0]
BeforeDot(text) ==
    IF DotAt(text, 1) = 0 THEN text ELSE SubSeq(text, 1, DotAt(text, 1) - 1)

\* text.strip()
RECURSIVE strip(_)
strip(text) ==
    IF text = <<>> THEN text
    ELSE IF Head(text) = " " THEN strip(Tail(text))
    ELSE IF text[Len(text)] = " " THEN strip(SubSeq(text, 1, Len(text) - 1))
    ELSE text

\* the characters of s other than "_"
RECURSIVE NoUnderscore(_)
NoUnderscore(s) ==
    IF s = <<>> THEN s
    ELSE IF Head(s) = "_" THEN NoUnderscore(Tail(s))
    ELSE <<Head(s)>> \o NoUnderscore(Tail(s))

\* the digits of an int literal, its sign taken off
Unsigned(text) ==
    LET t == strip(text)
    IN  IF t # <<>> /\ t[1] \in {"+", "-"} THEN Tail(t) ELSE t

\* whether int(text) returns: white space around, a sign, then digits that
\* single underscores may separate
IsInt(text) ==
    LET body == Unsigned(text)
    IN  /\ body # <<>>
        /\ IsDigit(body[1])
        /\ IsDigit(body[Len(body)])
        /\ \A i \in 1..Len(body) : IsDigit(body[i]) \/ body[i] = "_"
        /\ \A i \in 1..(Len(body) - 1) : ~(body[i] = "_" /\ body[i + 1] = "_")

\* int(text)
ParseInt(text) ==
    LET t == strip(text)
        v == CharsToNat(NoUnderscore(Unsigned(text)))
    IN  IF t[1] = "-" THEN -v ELSE v

\* os.path.splitext(filename)[1]: from the last "." on, if a name precedes it
RECURSIVE LastDot(_, _)
LastDot(name, i) ==
    IF i < 1 THEN 0 ELSE IF name[i] = "." THEN i ELSE LastDot(name, i - 1)

splitext(name) ==
    LET dot == LastDot(name, Len(name))
    IN  IF dot <= 1 THEN <<>> ELSE SubSeq(name, dot, Len(name))

\* config.SUPPORTED_IMAGE_FORMATS
SUPPORTED_IMAGE_FORMATS ==
    {<<".", "j", "p", "g">>, <<".", "j", "p", "e", "g">>,
     <<".", "p", "n", "g">>, <<".", "b", "m", "p">>}

\* file_utils.get_image_files: the image files of the listing, sorted; the
\* names of the model are lower case, as .lower() leaves them
RECURSIVE ImagesOf(_)
ImagesOf(listing) ==
    IF listing = {} THEN <<>>
    ELSE LET name == CHOOSE n \in listing : TRUE
             rest == ImagesOf(listing \ {name})
         IN  IF splitext(name) \in SUPPORTED_IMAGE_FORMATS
             THEN Append(rest, name) ELSE rest

get_image_files(listing) == sorted(ImagesOf(listing))

\* parse_image_id: the text before the first '_v', None without '_v'
parse_image_id(name) == IF HasV(name) THEN BeforeV(name) ELSE NoId

\* the version of a name that has no '_v' or whose version int() rejects
NoVersion == -1

\* extract_version_number: int() of the text between the first '_v' and the
\* next '_v' or '.', -1 when there is none or int() raises
extract_version_number(name) ==
    IF HasV(name) /\ IsInt(BeforeDot(AfterV(name)))
    THEN ParseInt(BeforeDot(AfterV(name)))
    ELSE NoVersion

----------------------------------------------------------------------------
(* ui/components/image_list.py: the groups *)

(* image_groups_by_id is a dict: the model keeps its entries, [id, files], *)
(* in the order of insertion, which is the order .values() gives.          *)

GroupIds(groups) == [i \in 1..Len(groups) |-> groups[i].id]

\* group_id in self.image_groups_by_id
HasGroup(groups, id) == \E i \in 1..Len(groups) : groups[i].id = id

GroupAt(groups, id) == CHOOSE i \in 1..Len(groups) : groups[i].id = id

\* self.image_groups_by_id[group_id]
GroupOf(groups, id) == groups[GroupAt(groups, id)].files

\* del self.image_groups_by_id[group_id]
DelGroup(groups, id) ==
    LET k == GroupAt(groups, id)
    IN  SubSeq(groups, 1, k - 1) \o SubSeq(groups, k + 1, Len(groups))

\* sorted(list(self.image_groups_by_id.keys()))
SortedIds(groups) == sorted(GroupIds(groups))

\* seq.index(x), 0 when x is not in seq
RECURSIVE IndexFrom(_, _, _)
IndexFrom(seq, x, i) ==
    IF i > Len(seq) THEN 0 ELSE IF seq[i] = x THEN i ELSE IndexFrom(seq, x, i + 1)

IndexOf(seq, x) == IndexFrom(seq, x, 1)

Has(seq, x) == IndexOf(seq, x) # 0

\* seq.remove(x): the first x taken out
Remove(seq, x) ==
    LET k == IndexOf(seq, x)
    IN  IF k = 0 THEN seq
        ELSE SubSeq(seq, 1, k - 1) \o SubSeq(seq, k + 1, Len(seq))

\* the loop of load_images_by_id: a file whose id is None or "" joins no group
RECURSIVE GroupFiles(_, _)
GroupFiles(files, groups) ==
    IF files = <<>> THEN groups
    ELSE LET f == Head(files)
             id == parse_image_id(f)
         IN  IF id = NoId THEN GroupFiles(Tail(files), groups)
             ELSE IF HasGroup(groups, id)
             THEN GroupFiles(Tail(files),
                     [groups EXCEPT ![GroupAt(groups, id)].files = Append(@, f)])
             ELSE GroupFiles(Tail(files),
                     Append(groups, [id |-> id, files |-> <<f>>]))

RECURSIVE InsertVersion(_, _)
InsertVersion(files, x) ==
    IF files = <<>> THEN <<x>>
    ELSE IF extract_version_number(x) < extract_version_number(Head(files))
    THEN <<x>> \o files
    ELSE <<Head(files)>> \o InsertVersion(Tail(files), x)

\* img_files.sort(key=extract_version_number): stable
RECURSIVE SortByVersion(_)
SortByVersion(files) ==
    IF files = <<>> THEN <<>>
    ELSE InsertVersion(SortByVersion(SubSeq(files, 1, Len(files) - 1)),
                       files[Len(files)])

\* the groups load_images_by_id builds of image_files
GroupsOf(files) ==
    LET groups == GroupFiles(files, <<>>)
    IN  [i \in 1..Len(groups) |->
            [id |-> groups[i].id, files |-> SortByVersion(groups[i].files)]]

\* the image_files load_images_by_id rebuilds: the groups' files, group after
\* group
RECURSIVE Flatten(_)
Flatten(groups) ==
    IF groups = <<>> THEN <<>> ELSE Head(groups).files \o Flatten(Tail(groups))

----------------------------------------------------------------------------
(* ui/components/image_list.py: the tree and its signals *)

(* An item of the tree is [text, path, children]: the text of column 0,    *)
(* the path kept under UserRole (None for the row of a group) and, for     *)
(* the row of a group, the paths of its child rows in order.  <<i>> is the *)
(* position of the i-th top-level item, <<i, j>> of its j-th child.  The   *)
(* label statistics show_label_count adds to a text are left out.          *)

List ==
    [image_files |-> image_files, image_groups_by_id |-> image_groups_by_id,
     current_group_id |-> current_group_id,
     current_group_index |-> current_group_index,
     current_image_idx |-> current_image_idx, group_by_id |-> group_by_id,
     batch_selection_mode |-> batch_selection_mode,
     batch_selected_items |-> batch_selected_items, tree |-> tree,
     current_item |-> current_item, selected_items |-> selected_items,
     scanned |-> scanned, signalled |-> <<>>]

ListBecomes(w) ==
    /\ image_files' = w.image_files
    /\ image_groups_by_id' = w.image_groups_by_id
    /\ current_group_id' = w.current_group_id
    /\ current_group_index' = w.current_group_index
    /\ current_image_idx' = w.current_image_idx
    /\ group_by_id' = w.group_by_id
    /\ batch_selection_mode' = w.batch_selection_mode
    /\ batch_selected_items' = w.batch_selected_items
    /\ tree' = w.tree
    /\ current_item' = w.current_item
    /\ selected_items' = w.selected_items
    /\ scanned' = w.scanned
    /\ signalled' = w.signalled

\* signal.emit(...)
Emit(w, signal) == [w EXCEPT !.signalled = Append(@, signal)]

\* f"{group_id}: ({len(group_files)} 个文件)": the words after the count
\* hold no ":" and are left out
GroupText(id, n) == id \o <<":", " ", "(">> \o NatToChars(n) \o <<")">>

\* text.split(':')[0]
RECURSIVE BeforeColon(_)
BeforeColon(text) ==
    IF text = <<>> \/ Head(text) = ":" THEN <<>>
    ELSE <<Head(text)>> \o BeforeColon(Tail(text))

\* text.startswith(prefix)
StartsWith(text, prefix) ==
    Len(prefix) <= Len(text) /\ SubSeq(text, 1, Len(prefix)) = prefix

\* f"{img_id}:"
IdPrefix(path) ==
    IF HasV(path) THEN BeforeV(path) \o <<":">> ELSE <<"N", "o", "n", "e", ":">>

FileItem(path) == [text |-> path, path |-> path, children |-> <<>>]

GroupItem(id, files) ==
    [text |-> GroupText(id, Len(files)), path |-> NoId, children |-> files]

\* item.data(0, Qt.ItemDataRole.UserRole)
PathAt(t, item) ==
    IF Len(item) = 1 THEN t[item[1]].path ELSE t[item[1]].children[item[2]]

\* the items of the tree, top to bottom
Items(t) ==
    {<<i>> : i \in 1..Len(t)}
        \cup UNION {{<<i, j>> : j \in 1..Len(t[i].children)} : i \in 1..Len(t)}

Above(p, q) ==
    \/ p[1] < q[1]
    \/ p[1] = q[1] /\ Len(p) = 1 /\ Len(q) = 2
    \/ p[1] = q[1] /\ Len(p) = 2 /\ Len(q) = 2 /\ p[2] < q[2]

\* selectedItems(), here top to bottom: the order Qt hands them out in is
\* not the code's to choose
RECURSIVE InOrder(_)
InOrder(items) ==
    IF items = {} THEN <<>>
    ELSE LET top == CHOOSE p \in items : \A q \in items \ {p} : Above(p, q)
         IN  <<top>> \o InOrder(items \ {top})

\* the paths of the items that have one
RECURSIVE PathsOf(_, _)
PathsOf(t, items) ==
    IF items = <<>> THEN <<>>
    ELSE IF PathAt(t, Head(items)) # NoId
    THEN <<PathAt(t, Head(items))>> \o PathsOf(t, Tail(items))
    ELSE PathsOf(t, Tail(items))

\* on_selection_changed, the slot of itemSelectionChanged
on_selection_changed(w) ==
    LET items == InOrder(w.selected_items)
        paths == PathsOf(w.tree, items)
        off == [w EXCEPT !.batch_selection_mode = FALSE,
                         !.batch_selected_items = <<>>]
    IN  IF w.group_by_id THEN w
        ELSE IF Len(items) > 1
        THEN Emit([w EXCEPT !.batch_selection_mode = TRUE,
                            !.batch_selected_items = paths],
                  <<"batch_selected", paths>>)
        ELSE IF ~w.batch_selection_mode THEN w
        ELSE IF Len(items) = 1 /\ paths # <<>> /\ Has(w.image_files, paths[1])
        THEN Emit([off EXCEPT !.current_image_idx =
                                  IndexOf(w.image_files, paths[1]) - 1],
                  <<"image_selected", paths[1],
                    IndexOf(w.image_files, paths[1]) - 1>>)
        ELSE off

\* the loop over image_files that both item slots end with
Chosen(w, file_path) ==
    IF file_path # NoId /\ Has(w.image_files, file_path)
    THEN Emit([w EXCEPT !.current_image_idx = IndexOf(w.image_files, file_path) - 1],
              <<"image_selected", file_path, IndexOf(w.image_files, file_path) - 1>>)
    ELSE w

\* item.parent().text(0).split(':')[0].strip()
GroupIdOfItem(t, item) == strip(BeforeColon(t[item[1]].text))

\* self.current_group_id = group_id, and its index in the sorted ids if it
\* is one of them
InGroup(w, group_id) ==
    [w EXCEPT !.current_group_id = group_id,
              !.current_group_index =
                  IF Has(SortedIds(w.image_groups_by_id), group_id)
                  THEN IndexOf(SortedIds(w.image_groups_by_id), group_id) - 1
                  ELSE @]

\* on_tree_item_change, the slot of currentItemChanged
on_tree_item_change(w, current) ==
    IF current = NoItem THEN w
    ELSE IF ~w.group_by_id THEN Chosen(w, PathAt(w.tree, current))
    ELSE IF Len(current) = 1 THEN w
    ELSE Chosen(InGroup(w, GroupIdOfItem(w.tree, current)),
                PathAt(w.tree, current))

\* on_tree_item_click, the slot of itemClicked; a click on the row of a
\* group folds or unfolds it
on_tree_item_click(w, item) ==
    IF ~w.group_by_id THEN Chosen(w, PathAt(w.tree, item))
    ELSE IF Len(item) = 1 THEN w
    ELSE Chosen(InGroup(w, GroupIdOfItem(w.tree, item)), PathAt(w.tree, item))

\* QItemSelectionModel: the selection becomes items, and itemSelectionChanged
\* is emitted if that changes it
Select(w, items) ==
    IF w.selected_items = items THEN w
    ELSE on_selection_changed([w EXCEPT !.selected_items = items])

\* currentItemChanged after the selection has become w1, unless the item
\* was current already
CurrentChanged(w1, was_current, item) ==
    IF was_current THEN w1 ELSE on_tree_item_change(w1, item)

\* QTreeWidget.setCurrentItem(item): the item becomes current and the only
\* selected one; itemSelectionChanged comes before currentItemChanged
setCurrentItem(w, item) ==
    CurrentChanged(Select([w EXCEPT !.current_item = item], {item}),
                   w.current_item = item, item)

\* QTreeWidget.clear(): the selection and the current item are cleared, with
\* their signals, and then the items go
clear(w) ==
    [Select(w, {}) EXCEPT !.current_item = NoItem, !.tree = <<>>]

\* _update_tree_view
update_tree_view(w) ==
    LET w1 == clear(w)
        ids == SortedIds(w1.image_groups_by_id)
    IN  IF w1.image_files = <<>> THEN w1
        ELSE IF ~w1.group_by_id
        THEN [w1 EXCEPT !.tree = [i \in 1..Len(w1.image_files) |->
                                     FileItem(w1.image_files[i])]]
        ELSE [w1 EXCEPT !.tree = [i \in 1..Len(ids) |->
                 GroupItem(ids[i], GroupOf(w1.image_groups_by_id, ids[i]))]]

----------------------------------------------------------------------------
(* ui/components/image_list.py: loading, navigation and removal *)

\* idx of img_path in image_files, where the loop over them finds it
WithImageIdx(w, img_path) ==
    IF Has(w.image_files, img_path)
    THEN [w EXCEPT !.current_image_idx = IndexOf(w.image_files, img_path) - 1]
    ELSE w

\* the rows select_tree_item_by_path matches: a top-level row that holds the
\* path, or a child that holds it under a row whose text starts with the id
Matches(w, img_path) ==
    IF ~w.group_by_id
    THEN {<<i>> : i \in {k \in 1..Len(w.tree) : w.tree[k].path = img_path}}
    ELSE {item \in Items(w.tree) :
             /\ Len(item) = 2
             /\ StartsWith(w.tree[item[1]].text, IdPrefix(img_path))
             /\ PathAt(w.tree, item) = img_path}

\* the grouped branch of select_tree_item_by_path after setCurrentItem has
\* left the list as w1: the group of the image becomes the current group
WithGroupOf(w1, grouped, img_path) ==
    IF grouped
    THEN [w1 EXCEPT !.current_group_id = parse_image_id(img_path),
                    !.current_group_index =
                        IF Has(SortedIds(w1.image_groups_by_id),
                               parse_image_id(img_path))
                        THEN IndexOf(SortedIds(w1.image_groups_by_id),
                                     parse_image_id(img_path)) - 1
                        ELSE @]
    ELSE w1

\* select_tree_item_by_path: the list after it, and what it returns
select_tree_item_by_path(w, img_path) ==
    LET found == Matches(w, img_path)
        item == InOrder(found)[1]
    IN  IF found = {} THEN [w |-> w, ok |-> FALSE]
        ELSE [w |-> WithImageIdx(WithGroupOf(setCurrentItem(w, item),
                                             w.group_by_id, img_path),
                                 img_path),
              ok |-> TRUE]

\* the branch of navigate_up and navigate_down for a tree with no current
\* item: the first row, in grouped mode the first child of the first row
NavigateFirst(w) ==
    IF w.tree = <<>> THEN w
    ELSE IF ~w.group_by_id THEN setCurrentItem(w, <<1>>)
    ELSE IF Len(w.tree[1].children) > 0 THEN setCurrentItem(w, <<1, 1>>)
    ELSE w

navigate_up(w) ==
    LET item == w.current_item
    IN  IF item = NoItem THEN NavigateFirst(w)
        ELSE IF ~w.group_by_id
        THEN \* indexOfTopLevelItem is -1 for a child row
             IF Len(item) = 1 /\ item[1] > 1
             THEN setCurrentItem(w, <<item[1] - 1>>) ELSE w
        ELSE IF Len(item) = 1 THEN w
        ELSE IF item[2] > 1 THEN setCurrentItem(w, <<item[1], item[2] - 1>>)
        ELSE IF item[1] > 1 /\ Len(w.tree[item[1] - 1].children) > 0
        THEN setCurrentItem(w, <<item[1] - 1, Len(w.tree[item[1] - 1].children)>>)
        ELSE w

\* navigate_down without the step to the next group
navigate_down_within_group(w) ==
    LET item == w.current_item
    IN  IF item = NoItem THEN NavigateFirst(w)
        ELSE IF ~w.group_by_id
        THEN IF Len(item) = 1
             THEN IF item[1] < Len(w.tree)
                  THEN setCurrentItem(w, <<item[1] + 1>>) ELSE w
             ELSE setCurrentItem(w, <<1>>)
        ELSE IF Len(item) = 1 THEN w
        ELSE IF item[2] < Len(w.tree[item[1]].children)
        THEN setCurrentItem(w, <<item[1], item[2] + 1>>)
        ELSE w

navigate_down(w) ==
    LET item == w.current_item
    IN  IF item = NoItem THEN NavigateFirst(w)
        ELSE IF ~w.group_by_id
        THEN \* indexOfTopLevelItem is -1 for a child row: row 0 is next
             IF Len(item) = 1
             THEN IF item[1] < Len(w.tree)
                  THEN setCurrentItem(w, <<item[1] + 1>>) ELSE w
             ELSE setCurrentItem(w, <<1>>)
        ELSE IF Len(item) = 1 THEN w
        ELSE IF item[2] < Len(w.tree[item[1]].children)
        THEN setCurrentItem(w, <<item[1], item[2] + 1>>)
        ELSE IF item[1] < Len(w.tree) /\ Len(w.tree[item[1] + 1].children) > 0
        THEN setCurrentItem(w, <<item[1] + 1, 1>>)
        ELSE w

\* the first image of a group has been looked for in the tree, which gave
\* sel: if it was found the group becomes current and the image is announced
FirstOfGroup(sel, idx, next_group_id, next_idx, next_image_path) ==
    IF ~sel.ok THEN [w |-> sel.w, ok |-> FALSE]
    ELSE [w |-> Emit([sel.w EXCEPT !.current_image_idx = idx,
                                   !.current_group_id = next_group_id,
                                   !.current_group_index = next_idx],
                     <<"image_selected", next_image_path, idx>>),
          ok |-> TRUE]

\* select_next_group_first_image: the list after it, and what it returns
select_next_group_first_image(w) ==
    LET all_group_ids == SortedIds(w.image_groups_by_id)
        next_idx == IF w.current_group_index >= 0
                    THEN IF w.current_group_index < Len(all_group_ids)
                         THEN w.current_group_index
                         ELSE Len(all_group_ids) - 1
                    ELSE 0
        next_group_id == all_group_ids[next_idx + 1]
        next_image_path == GroupOf(w.image_groups_by_id, next_group_id)[1]
        idx == IndexOf(w.image_files, next_image_path) - 1
    IN  IF all_group_ids = <<>>
        THEN [w |-> [clear(w) EXCEPT !.current_group_id = NoId,
                                     !.current_group_index = -1,
                                     !.current_image_idx = -1],
              ok |-> FALSE]
        ELSE IF GroupOf(w.image_groups_by_id, next_group_id) = <<>>
        THEN [w |-> w, ok |-> FALSE]
        ELSE IF ~Has(w.image_files, next_image_path)
        THEN [w |-> w, ok |-> FALSE]
        ELSE FirstOfGroup(select_tree_item_by_path(w, next_image_path),
                          idx, next_group_id, next_idx, next_image_path)

\* an image of the current group has been looked for in the tree, which
\* gave sel: if it was found it is announced
NextInGroup(sel, next_image_path, idx) ==
    IF sel.ok
    THEN [w |-> Emit(sel.w, <<"image_selected", next_image_path, idx>>),
          ok |-> TRUE]
    ELSE [w |-> sel.w, ok |-> FALSE]

\* the grouped branch of select_next_image_after_removal that looks in the
\* current group
SelectInGroup(w, current_in_group_idx) ==
    LET remaining_images == GroupOf(w.image_groups_by_id, w.current_group_id)
        next_image_path ==
            remaining_images[Min(current_in_group_idx, Len(remaining_images) - 1) + 1]
    IN  IF /\ w.current_group_id # NoId
           /\ HasGroup(w.image_groups_by_id, w.current_group_id)
           /\ remaining_images # <<>>
           /\ current_in_group_idx >= 0
           /\ Has(w.image_files, next_image_path)
        THEN NextInGroup(select_tree_item_by_path(w, next_image_path),
                         next_image_path,
                         IndexOf(w.image_files, next_image_path) - 1)
        ELSE [w |-> w, ok |-> FALSE]

\* the flat branch of select_next_image_after_removal, where sel is what
\* select_tree_item_by_path gave for next_img_path
SelectedFlat(sel, next_img_path) ==
    IF sel.ok
    THEN Emit(sel.w, <<"image_selected", next_img_path,
                       sel.w.current_image_idx>>)
    ELSE sel.w

\* the grouped branch of select_next_image_after_removal, where grp is what
\* the look in the current group gave
OrNextGroup(grp) ==
    IF grp.ok THEN grp.w ELSE select_next_group_first_image(grp.w).w

select_next_image_after_removal(w, current_in_group_idx) ==
    LET idx == IF w.current_image_idx >= Len(w.image_files)
               THEN Len(w.image_files) - 1 ELSE w.current_image_idx
        w1 == [w EXCEPT !.current_image_idx = idx]
        next_img_path == w.image_files[idx + 1]
    IN  IF ~w.group_by_id
        THEN IF w.image_files = <<>> THEN w
             ELSE IF idx < 0 THEN w1
             ELSE SelectedFlat(select_tree_item_by_path(w1, next_img_path),
                               next_img_path)
        ELSE OrNextGroup(SelectInGroup(w, current_in_group_idx))

\* remove_current_image
remove_current_image(w) ==
    LET item == w.current_item
        current_img_path == PathAt(w.tree, item)
        in_group == /\ w.current_group_id # NoId
                    /\ HasGroup(w.image_groups_by_id, w.current_group_id)
        group_images == GroupOf(w.image_groups_by_id, w.current_group_id)
        current_in_group_idx ==
            IF w.group_by_id /\ in_group
            THEN IndexOf(group_images, current_img_path) - 1 ELSE -1
        removed_img_idx ==
            IF ~w.group_by_id
            THEN IndexOf(w.image_files, current_img_path) - 1 ELSE -1
        files == Remove(w.image_files, current_img_path)
        w1 == [w EXCEPT !.image_files = files,
                        !.current_image_idx =
                            IF removed_img_idx < 0 THEN @
                            ELSE IF removed_img_idx >= Len(files)
                            THEN Len(files) - 1
                            ELSE removed_img_idx]
        group_files == Remove(group_images, current_img_path)
        w2 == IF w.group_by_id /\ in_group /\ Has(group_images, current_img_path)
              THEN IF group_files = <<>>
                   THEN [w1 EXCEPT !.image_groups_by_id =
                                       DelGroup(@, w.current_group_id),
                                   !.current_group_id = NoId]
                   ELSE [w1 EXCEPT !.image_groups_by_id =
                                       [@ EXCEPT ![GroupAt(@, w.current_group_id)].files =
                                                     group_files]]
              ELSE w1
    IN  IF item = NoItem THEN w
        ELSE IF w.group_by_id /\ Len(item) = 1 THEN w
        ELSE IF current_img_path = NoId THEN w
        ELSE select_next_image_after_removal(update_tree_view(w2),
                                             current_in_group_idx)

\* the files of group_files taken out of image_files, one by one
RECURSIVE RemoveAll(_, _)
RemoveAll(files, group_files) ==
    IF group_files = <<>> THEN files
    ELSE RemoveAll(Remove(files, Head(group_files)), Tail(group_files))

\* the end of remove_current_group, where w2 is the list after the tree has
\* been rebuilt: the first image of the next group is selected
NextGroupSelected(w2, next_group_id, next_group_index) ==
    LET next_image_path == GroupOf(w2.image_groups_by_id, next_group_id)[1]
        idx == IndexOf(w2.image_files, next_image_path) - 1
    IN  IF /\ next_group_id # NoId
           /\ HasGroup(w2.image_groups_by_id, next_group_id)
           /\ GroupOf(w2.image_groups_by_id, next_group_id) # <<>>
           /\ Has(w2.image_files, next_image_path)
        THEN FirstOfGroup(select_tree_item_by_path(w2, next_image_path),
                          idx, next_group_id, next_group_index,
                          next_image_path).w
        ELSE w2

\* remove_current_group
remove_current_group(w) ==
    LET all_group_ids == SortedIds(w.image_groups_by_id)
        current_idx == IndexOf(all_group_ids, w.current_group_id) - 1
        listed == Has(all_group_ids, w.current_group_id)
        next_group_id ==
            IF listed /\ current_idx < Len(all_group_ids) - 1
            THEN all_group_ids[current_idx + 2]
            ELSE IF listed /\ Len(all_group_ids) > 1 THEN all_group_ids[1]
            ELSE NoId
        next_group_index ==
            IF listed /\ current_idx < Len(all_group_ids) - 1 THEN current_idx
            ELSE IF listed /\ Len(all_group_ids) > 1 THEN 0
            ELSE -1
        w1 == IF HasGroup(w.image_groups_by_id, w.current_group_id)
              THEN [w EXCEPT !.image_files =
                                 RemoveAll(@, GroupOf(w.image_groups_by_id,
                                                      w.current_group_id)),
                             !.image_groups_by_id =
                                 DelGroup(@, w.current_group_id)]
              ELSE w
    IN  IF ~w.group_by_id \/ w.current_group_id = NoId THEN w
        ELSE NextGroupSelected(
                 update_tree_view([w1 EXCEPT !.current_group_id = NoId,
                                             !.current_group_index = -1]),
                 next_group_id, next_group_index)

\* load_images_by_id
load_images_by_id(w) ==
    IF w.image_files = <<>> THEN w
    ELSE update_tree_view(
             [w EXCEPT !.image_groups_by_id = GroupsOf(w.image_files),
                       !.image_files = Flatten(GroupsOf(w.image_files))])

\* load_images_simple
load_images_simple(w) ==
    IF w.image_files = <<>> THEN w
    ELSE update_tree_view([w EXCEPT !.image_groups_by_id = <<>>,
                                    !.current_group_id = NoId,
                                    !.image_files = sorted(@)])

\* ImageListWidget.load_images, of a directory that lists the names listing
list_load_images(w, listing) ==
    LET w1 == [w EXCEPT !.image_files = get_image_files(listing),
                        !.scanned = get_image_files(listing)]
    IN  IF w.group_by_id THEN load_images_by_id(w1) ELSE load_images_simple(w1)

\* set_group_by_id
set_group_by_id(w, flag) ==
    LET w1 == [w EXCEPT !.group_by_id = flag]
    IN  IF w1.image_files = <<>> THEN w1
        ELSE IF flag THEN load_images_by_id(w1)
        ELSE load_images_simple(w1)

\* set_show_label_count: the tree is shown anew if there are images
set_show_label_count(w) ==
    IF w.image_files # <<>> THEN update_tree_view(w) ELSE w

\* clear_batch_selection
clear_batch_selection(w) ==
    Select([w EXCEPT !.batch_selection_mode = FALSE,
                     !.batch_selected_items = <<>>], {})

\* remove_batch_selected_images
remove_batch_selected_images(w) ==
    IF ~w.batch_selection_mode \/ w.batch_selected_items = <<>> THEN w
    ELSE update_tree_view(clear_batch_selection(
             [w EXCEPT !.image_files = RemoveAll(@, w.batch_selected_items)]))

----------------------------------------------------------------------------
(* ui/main_window_new.py and the user: what happens to the list *)

(* MainWindow.group_by_id is the state of the check box, and both          *)
(* handlers below hand it to the list: it equals the list's group_by_id.   *)

\* MainWindow.load_images, of an images directory that lists listing
load_images(w, listing) ==
    set_show_label_count(set_group_by_id(list_load_images(w, listing),
                                         w.group_by_id))

\* on_group_by_id_toggle: the check box has changed
on_group_by_id_toggle(w) ==
    set_group_by_id(IF w.batch_selection_mode THEN clear_batch_selection(w)
                    ELSE w,
                    ~w.group_by_id)

\* a click on a row: the row becomes current, then the selection changes
\* (to the row alone, or with Ctrl by toggling the row), then itemClicked
RowClicked(w, item, ctrl) ==
    LET w1 == [w EXCEPT !.current_item = item]
        w2 == IF w.current_item = item THEN w1 ELSE on_tree_item_change(w1, item)
        items == IF ~ctrl THEN {item}
                 ELSE IF item \in w.selected_items THEN w.selected_items \ {item}
                 ELSE w.selected_items \cup {item}
    IN  on_tree_item_click(Select(w2, items), item)

Jpg(stem) == stem \o <<".", "j", "p", "g">>

\* A_v1.jpg, A_v2.jpg and B_v1.jpg
A_v1 == Jpg(<<"a", "_", "v", "1">>)
A_v2 == Jpg(<<"a", "_", "v", "2">>)
B_v1 == Jpg(<<"b", "_", "v", "1">>)

\* a tenth version, a version that is no number, a negative one, a name with
\* a second "_v", a name without "_v", a name with a blank before "_v", and a
\* file that is no image
A_v10 == Jpg(<<"a", "_", "v", "1", "0">>)
A_vx == Jpg(<<"a", "_", "v", "x">>)
A_vMinus5 == Jpg(<<"a", "_", "v", "-", "5">>)
A_v1_v2 == Jpg(<<"a", "_", "v", "1", "_", "v", "2">>)
Plain == Jpg(<<"c">>)
Blank_v1 == Jpg(<<"a", " ", "_", "v", "1">>)
Notes == <<"a", "_", "v", "1", ".", "t", "x", "t">>

\* the directories the list is loaded from
ListDirs ==
    {{}, {A_v1, A_v2, B_v1}, {A_v1, Blank_v1, B_v1}}

ListCall(name) ==
    /\ calls < MaxCalls
    /\ calls' = calls + 1
    /\ called' = name
    /\ UNCHANGED <<recordVars, viewerVars, windowVars>>

LoadFrom(dirs) ==
    \E listing \in dirs :
        /\ ListBecomes(load_images(List, listing))
        /\ ListCall(<<"load_images">>)

ListLoad == LoadFrom(ListDirs)

ListToggle ==
    /\ ListBecomes(on_group_by_id_toggle(List))
    /\ ListCall(<<"on_group_by_id_toggle">>)

ListClick ==
    \E item \in Items(tree), ctrl \in BOOLEAN :
        /\ ListBecomes(RowClicked(List, item, ctrl))
        /\ ListCall(<<"click", item, ctrl>>)

ListNavigateUp ==
    /\ ListBecomes(navigate_up(List))
    /\ ListCall(<<"navigate_up">>)

ListNavigateDown ==
    /\ ListBecomes(navigate_down(List))
    /\ ListCall(<<"navigate_down">>)

ListRemoveImage ==
    /\ ListBecomes(remove_current_image(List))
    /\ ListCall(<<"remove_current_image">>)

ListRemoveGroup ==
    /\ ListBecomes(remove_current_group(List))
    /\ ListCall(<<"remove_current_group">>)

ListRemoveBatch ==
    /\ ListBecomes(remove_batch_selected_images(List))
    /\ ListCall(<<"remove_batch_selected_images">>)

\* a new main window: no image loaded, an empty list
InitList ==
    /\ source_dir = <<"D", "Tanker">>
    /\ target_dir = <<"T">>
    /\ labels = <<>>
    /\ fs = WriteFile(<<>>, image_path, ImageBytes)
    /\ modified = FALSE
    /\ ops = 0
    /\ ret = Ret("init", TRUE)
    /\ pre = NoPre
    /\ ViewerCreated
    /\ zoomed = FALSE
    /\ CatalogCreated
    /\ WindowCreated

NextList ==
    \/ ListLoad
    \/ ListToggle
    \/ ListClick
    \/ ListNavigateUp
    \/ ListNavigateDown
    \/ ListRemoveImage
    \/ ListRemoveGroup
    \/ ListRemoveBatch

SpecList == InitList /\ [][NextList]_vars

----------------------------------------------------------------------------
(* ui/components/image_list.py: loads of many directories *)

\* the names a directory may list
LoadNames ==
    {A_v1, A_v10, A_vx, A_vMinus5, A_v1_v2, B_v1, Plain, Notes}

\* the directories of at most MaxFiles of these names
LoadDirs == {dir \in SUBSET LoadNames : Cardinality(dir) <= MaxFiles}

DirLoad == LoadFrom(LoadDirs)

NextLoad ==
    \/ DirLoad
    \/ ListToggle

SpecLoad == InitList /\ [][NextLoad]_vars

----------------------------------------------------------------------------
(* What the claims say of the label record and of the move *)

Edits == {"add_label", "update_label_class", "update_label_coords", "remove_label"}

Moved == ret.op = "move_to_target"

\* the rows a move resolves: the rows in memory of a dirty record, the rows
\* of the label file in place otherwise
ResolvedRows ==
    IF pre.modified THEN pre.labels ELSE read_label_file(pre.fs, label_path)

\* <target>/<name of the class>/, or <target>/ without a class id
ExpectedDir(id) ==
    IF id = None THEN target_dir ELSE target_dir \o <<ship_types[id]>>

ExpectedImagePath(id) == Path(ExpectedDir(id) \o <<"images">>, <<"a">>, ".jpg")

ExpectedLabelPath(id) == Path(ExpectedDir(id) \o <<"labels">>, <<"a">>, ".txt")

RowInRange(row) ==
    /\ row[4] >= 1 /\ row[5] >= 1
    /\ 0 <= row[2] /\ row[2] <= 1000
    /\ 0 <= row[3] /\ row[3] <= 1000
    /\ row[4] <= 1000 /\ row[5] <= 1000

\* C1: after any sequence of add and update_coords calls every stored row has
\* width and height of at least 0.001 and at most 1.0 and a centre in [0, 1].
\* (The rows of the label files the model starts from are all in that range.)
C1_StoredRowsInRange == \A i \in 1..Len(labels) : RowInRange(labels[i])

\* C2: rows with integer class ids, written by write_label_file and read back
\* by read_label_file from the same path, come back as the same number of
\* rows in the same order with the same five values.
C2_RoundTrip ==
    (/\ ret.op = "save_labels" /\ ret.ok
     /\ \A i \in 1..Len(labels) : labels[i][1] % 1000 = 0)
    => read_label_file(fs, label_path) = labels

\* a save that returned true for two rows, one of them with a negative
\* centre, a centre above 1 and a width of 0.0
C2_Witness ==
    /\ ret.op = "save_labels" /\ ret.ok
    /\ Len(labels) = 2
    /\ \E i \in 1..2 : labels[i][3] < 0 /\ labels[i][2] > 1000 /\ labels[i][4] = 0

\* C3: modified is true after an add, update_class, update_coords or remove
\* that returned true; a save that returned true leaves it false, a save that
\* returned false leaves it as it was.
C3_ModifiedFlag ==
    /\ (ret.op \in Edits /\ ret.ok) => modified
    /\ (ret.op = "save_labels" /\ ret.ok) => ~modified
    /\ (ret.op = "save_labels" /\ ~ret.ok) => modified = pre.modified

\* a save of a dirty record that returned false
C3_Witness == ret.op = "save_labels" /\ ~ret.ok /\ pre.modified /\ modified

\* C4: a move reports success only if the destination label file, read back,
\* has as many rows as the resolved source rows and the same class id in
\* every row.
C4_SuccessOnlyIfVerified ==
    (Moved /\ ret.ok) =>
        LET target_rows == read_label_file(fs, ExpectedLabelPath(ret.id))
        IN  /\ Len(target_rows) = Len(ResolvedRows)
            /\ \A i \in 1..Len(target_rows) :
                   IntOf(target_rows[i][1]) = IntOf(ResolvedRows[i][1])

\* a move that wrote both destination files and reported the class id of a
\* row that differs
C4_Witness ==
    /\ Moved /\ ~ret.ok /\ ret.msg = MsgVerifyClass
    /\ Exists(fs, ExpectedImagePath(ret.id))
    /\ Exists(fs, ExpectedLabelPath(ret.id))
    /\ Len(read_label_file(fs, ExpectedLabelPath(ret.id))) = Len(ResolvedRows)

\* C5: after a move, successful or not, the source image and the label file
\* in place exist with the content they had, and the record's rows and
\* modified flag are what they were.
C5_SourceUntouched ==
    Moved =>
        /\ \A p \in {image_path, label_path} :
              Exists(pre.fs, p) => Exists(fs, p) /\ fs[p] = pre.fs[p]
        /\ labels = pre.labels
        /\ modified = pre.modified

\* a successful move: both destination files exist beside the source files
C5_Witness ==
    /\ Moved /\ ret.ok
    /\ Exists(fs, ExpectedImagePath(ret.id))
    /\ Exists(fs, ExpectedLabelPath(ret.id))
    /\ Exists(fs, image_path) /\ Exists(fs, label_path)

RECURSIVE ExpectedRows(_)
ExpectedRows(lines) ==
    IF lines = <<>> THEN <<>>
    ELSE (IF Len(Head(lines)) = 5 THEN <<Head(lines)>> ELSE <<>>)
         \o ExpectedRows(Tail(lines))

ImageLeft == Exists(fs, ExpectedImagePath(ret.id))

\* C8, as claimed: when the image was copied and the copy of the label file
\* of a record that is not dirty fails, the move fails and the copied image
\* is left in place.
C8_ImageLeftInPlace ==
    (Moved /\ ~pre.modified /\ ret.msg \in {MsgLabelRaised, MsgLabelWrite})
        => ~ret.ok /\ ImageLeft

\* C8, amended: when the image was copied and the copy or the write of the
\* label file raises or fails, the move fails and removes the copied image
\* again, for a dirty record and for one that is not (the image stays only
\* if that os.unlink raises); the image is left in place when the failure is
\* found without an exception: no label file after the copy, or a row count
\* or class id that differs.
C8_ImageRemovedOnLabelFailure ==
    /\ (Moved /\ ret.msg \in {MsgLabelRaised, MsgLabelWrite})
          => ~ret.ok /\ (~ret.unlink_raises => ~ImageLeft)
    /\ (Moved /\ ret.msg \in {MsgLabelStep, MsgVerifyEmpty, MsgVerifyCount, MsgVerifyClass})
          => ~ret.ok /\ ImageLeft

\* the copy of the label file of a record that is not dirty raised, and the
\* copied image is gone
C8_Witness ==
    /\ Moved /\ ~pre.modified /\ ret.msg = MsgLabelRaised
    /\ ~ImageLeft /\ ~ret.unlink_raises

----------------------------------------------------------------------------
(* What the claims say of the hit tests and of a press *)

\* the sides of a row's box, in units of 1/2000 pixel
Left(row) == (2 * row[2] - row[4]) * image_size[1]
Right(row) == (2 * row[2] + row[4]) * image_size[1]
Top(row) == (2 * row[3] - row[5]) * image_size[2]
Bottom(row) == (2 * row[3] + row[5]) * image_size[2]

\* the pointer is at most d pixels from the coordinate c of a side
Within(p, c, d) == 2000 * p - c <= 2000 * d /\ c - 2000 * p <= 2000 * d

\* the pointer is between two sides, both included
Between(p, lo, hi) == lo <= 2000 * p /\ 2000 * p <= hi

Contains(pos, row) ==
    Between(pos[1], Left(row), Right(row)) /\ Between(pos[2], Top(row), Bottom(row))

\* corner k of the row is within 15 px of the pointer on both axes;
\* 0 = top-left, 1 = top-right, 2 = bottom-right, 3 = bottom-left
NearCorner(pos, row, k) ==
    /\ k \in 0..3
    /\ Within(pos[1], IF k \in {0, 3} THEN Left(row) ELSE Right(row), 15)
    /\ Within(pos[2], IF k \in {0, 1} THEN Top(row) ELSE Bottom(row), 15)

\* the pointer is in the 10 px band of edge k of the row, within the edge's span;
\* 0 = top, 1 = right, 2 = bottom, 3 = left
OnEdge(pos, row, k) ==
    /\ k \in 0..3
    /\ IF k \in {0, 2}
       THEN /\ Within(pos[2], IF k = 0 THEN Top(row) ELSE Bottom(row), 10)
            /\ Between(pos[1], Left(row), Right(row))
       ELSE /\ Within(pos[1], IF k = 1 THEN Right(row) ELSE Left(row), 10)
            /\ Between(pos[2], Top(row), Bottom(row))

MinOf(S) == CHOOSE m \in S : \A n \in S : m <= n

\* the rows, counted from 1, that the pointer is inside, at a corner of, on an edge of
InsideRows(pos) == {i \in 1..Len(labels) : Contains(pos, labels[i])}
CornerRows(pos) == {i \in 1..Len(labels) : \E k \in 0..3 : NearCorner(pos, labels[i], k)}
EdgeRows(pos) == {i \in 1..Len(labels) : \E k \in 0..3 : OnEdge(pos, labels[i], k)}

\* a left press arrived while no mode was active
IdleLeftPress ==
    /\ event.kind = "press" /\ event.button = "left"
    /\ ~event.drawing /\ ~event.dragging /\ ~event.panning

\* C9: after a left press in Idle, a corner drag has started on a row with a
\* corner at the pointer whenever some row has one, whatever edge bands or
\* interiors the pointer is also in; an edge drag has started only when no
\* row has a corner there and some row has an edge; a row is selected by
\* containment only when no row has a corner or an edge there.
C9_PressPriority ==
    IdleLeftPress =>
        IF CornerRows(event.pos) # {}
        THEN /\ is_dragging /\ ~is_edge_dragging /\ ~is_panning
             /\ dragging_bbox_index + 1 \in CornerRows(event.pos)
             /\ NearCorner(event.pos, labels[dragging_bbox_index + 1], dragging_point_index)
             /\ dragging_edge_index = -1
             /\ selected_bbox_index = dragging_bbox_index
        ELSE IF EdgeRows(event.pos) # {}
        THEN /\ is_dragging /\ is_edge_dragging /\ ~is_panning
             /\ dragging_bbox_index + 1 \in EdgeRows(event.pos)
             /\ OnEdge(event.pos, labels[dragging_bbox_index + 1], dragging_edge_index)
             /\ dragging_point_index = -1
             /\ selected_bbox_index = dragging_bbox_index
        ELSE IF InsideRows(event.pos) # {}
        THEN /\ ~is_dragging /\ ~is_edge_dragging
             /\ selected_bbox_index + 1 \in InsideRows(event.pos)
        ELSE /\ ~is_dragging /\ ~is_edge_dragging
             /\ selected_bbox_index = -1

\* a corner drag started on a row while the pointer was inside an earlier
\* row that has no corner there
C9_Witness ==
    /\ IdleLeftPress
    /\ is_dragging /\ ~is_edge_dragging
    /\ \E b \in InsideRows(event.pos) :
          b < dragging_bbox_index + 1 /\ b \notin CornerRows(event.pos)

\* C10: for every pointer, each hit test returns the lowest row the pointer
\* matches (inside it; within 15 px of a corner; in the 10 px band of an edge
\* and within the edge's span) with that row's lowest matching corner or
\* edge number, and returns no match exactly when no row matches.
C10_HitTestsReturnFirstMatch ==
    \A pos \in Pointers :
        /\ get_bbox_at_position(pos, labels, image_size) =
              IF InsideRows(pos) = {} THEN NoHit
              ELSE <<MinOf(InsideRows(pos)) - 1>>
        /\ get_bbox_corner_at_position(pos, labels, image_size) =
              IF CornerRows(pos) = {} THEN NoHit
              ELSE LET i == MinOf(CornerRows(pos))
                   IN  <<i - 1, MinOf({k \in 0..3 : NearCorner(pos, labels[i], k)})>>
        /\ get_bbox_edge_at_position(pos, labels, image_size) =
              IF EdgeRows(pos) = {} THEN NoHit
              ELSE LET i == MinOf(EdgeRows(pos))
                   IN  <<i - 1, MinOf({k \in 0..3 : OnEdge(pos, labels[i], k)})>>

\* a press took the first of two rows with a corner at the pointer, and the
\* first of several corners of that row
C10_Witness ==
    /\ IdleLeftPress
    /\ is_dragging /\ ~is_edge_dragging
    /\ dragging_bbox_index = 0 /\ dragging_point_index = 0
    /\ Cardinality(CornerRows(event.pos)) > 1
    /\ Cardinality({k \in 0..3 : NearCorner(event.pos, labels[1], k)}) > 1

----------------------------------------------------------------------------
(* What the claims say of the editing modes and of whole gestures *)

\* C11: in every reachable state at most one of the modes dragging, panning
\* and drawing is active.
C11_OneModeActive ==
    /\ ~(is_dragging /\ is_panning)
    /\ ~(is_dragging /\ is_drawing_bbox)
    /\ ~(is_panning /\ is_drawing_bbox)

\* the step is a release
ReleaseStep == event'.kind = "release"

\* C12: a release that arrives while a corner or edge drag is the one active
\* mode leaves no drag (flags false, box, corner and edge indices -1) and
\* emits exactly one bbox_modified, with the dragged row's index and the
\* coordinates the row holds at the release.
C12_ReleaseEndsDrag ==
    [][(ReleaseStep /\ is_dragging /\ ~is_panning /\ ~is_drawing_bbox) =>
          /\ ~is_dragging' /\ ~is_edge_dragging'
          /\ dragging_bbox_index' = -1
          /\ dragging_point_index' = -1
          /\ dragging_edge_index' = -1
          /\ emitted' = <<<<"bbox_modified", dragging_bbox_index,
                           labels[dragging_bbox_index + 1][2],
                           labels[dragging_bbox_index + 1][3],
                           labels[dragging_bbox_index + 1][4],
                           labels[dragging_bbox_index + 1][5]>>>>]_vars

\* a drag that moved its row was released, and its signal went out
C12_Witness ==
    /\ event.kind = "release"
    /\ event.dragging /\ ~event.panning /\ ~event.drawing
    /\ ~is_dragging
    /\ Len(emitted) = 1 /\ emitted[1][1] = "bbox_modified"
    /\ labels # <<BoxA, BoxDot>>

\* a press and a drawing move have been taken in drawing mode
Drawn == is_drawing_bbox /\ drawing_start_pos # NoPos /\ drawing_current_pos # NoPos

\* C13 as stated: a release after add-box, a press and a drag leaves drawing
\* mode with both positions cleared, and emits bbox_created followed by the
\* class request for the index of the new row.
C13_DrawingEmitsNewBox ==
    [][(ReleaseStep /\ Drawn) =>
          /\ ~is_drawing_bbox'
          /\ drawing_start_pos' = NoPos /\ drawing_current_pos' = NoPos
          /\ Len(emitted') = 2
          /\ emitted'[1][1] = "bbox_created"
          /\ emitted'[2] = <<"show_class_menu_requested", Len(labels)>>]_vars

\* the rectangle between the two positions is at least 5 px on both sides
LargeEnough ==
    /\ Abs(drawing_start_pos[1] - drawing_current_pos[1]) >= 5
    /\ Abs(drawing_start_pos[2] - drawing_current_pos[2]) >= 5

\* C13: a release after add-box, a press that set the start position and a
\* drawing move leaves drawing mode with both positions cleared; for a
\* rectangle of at least 5 px on both sides it emits bbox_created(-1, ...)
\* followed by the class request for the index the new row receives, and for
\* a smaller one it emits nothing and adds no row.
C13_DrawingEndsAndEmitsIfLargeEnough ==
    [][(ReleaseStep /\ Drawn) =>
          /\ ~is_drawing_bbox'
          /\ drawing_start_pos' = NoPos /\ drawing_current_pos' = NoPos
          /\ IF LargeEnough
             THEN /\ Len(emitted') = 2
                  /\ emitted'[1][1] = "bbox_created" /\ emitted'[1][2] = -1
                  /\ emitted'[2] = <<"show_class_menu_requested", Len(labels)>>
                  /\ Len(labels') = Len(labels) + 1
                  /\ SubSeq(labels', 1, Len(labels)) = labels
                  /\ labels'[Len(labels) + 1] =
                        <<Float(-1), emitted'[1][3], emitted'[1][4],
                          emitted'[1][5], emitted'[1][6]>>
             ELSE emitted' = <<>> /\ labels' = labels]_vars

\* a drawn rectangle became a row, and its class was requested
C13_Witness ==
    /\ event.kind = "release" /\ event.drawing
    /\ ~is_drawing_bbox
    /\ Len(emitted) = 2 /\ emitted[1][1] = "bbox_created"
    /\ Len(labels) = 3

\* C14 as stated: after a pointer move of a drag the pixel-space corners are
\* at least 1 px apart on both axes, and the stored row has positive width
\* and height.
C14_DragKeepsOnePixel ==
    dragged_corners # <<>> =>
        /\ dragged_corners[3] - dragged_corners[1] >= 2000
        /\ dragged_corners[4] - dragged_corners[2] >= 2000
        /\ labels[dragging_bbox_index + 1][4] > 0
        /\ labels[dragging_bbox_index + 1][5] > 0

\* C14: after a pointer move of a drag the pixel-space corners satisfy
\* x2 > x1 and y2 > y1 (x2 = x1 + 1 only where the pointer had made
\* x2 <= x1), and the stored row has width and height of at least 0.001.
C14_DragKeepsPositiveSize ==
    dragged_corners # <<>> =>
        /\ dragged_corners[3] > dragged_corners[1]
        /\ dragged_corners[4] > dragged_corners[2]
        /\ labels[dragging_bbox_index + 1][4] >= 1
        /\ labels[dragging_bbox_index + 1][5] >= 1

\* a move of a drag took a side across the opposite one, and x2 was put
\* 1 px after x1
C14_Witness ==
    /\ event.kind = "move" /\ event.dragging
    /\ dragged_corners # <<>>
    /\ dragged_corners[3] - dragged_corners[1] = 2000

----------------------------------------------------------------------------
(* What the claims say of the image list *)

\* the image of the current row, for a row that shows one
CurrentImage == PathAt(tree, current_item)

\* the current row is the row of an image
OnImage == current_item # NoItem /\ CurrentImage # NoId

\* the entries of image_groups_by_id that hold the path
GroupsWith(groups, path) ==
    {i \in 1..Len(groups) : Has(groups[i].files, path)}

\* the step is a call of remove_current_image in grouped mode, on the row of
\* an image that a group holds
RemovesGroupedImage ==
    /\ called' = <<"remove_current_image">>
    /\ group_by_id
    /\ OnImage
    /\ GroupsWith(image_groups_by_id, CurrentImage) # {}

\* C15: in grouped mode, removing the current image deletes the entry of its
\* group exactly when the image was the group's only member; otherwise the
\* group stays, with its other members in unchanged order
C15_RemovalKeepsOrDeletesGroup ==
    [][RemovesGroupedImage =>
          \A i \in GroupsWith(image_groups_by_id, CurrentImage) :
              LET id == image_groups_by_id[i].id
                  files == image_groups_by_id[i].files
              IN  IF files = <<CurrentImage>>
                  THEN ~HasGroup(image_groups_by_id', id)
                  ELSE /\ HasGroup(image_groups_by_id', id)
                       /\ GroupOf(image_groups_by_id', id) = Remove(files, CurrentImage)]_vars

\* the step is a call of remove_current_image that passes its guards: the
\* current row shows an image
RemovesImage ==
    /\ called' = <<"remove_current_image">>
    /\ OnImage
    /\ group_by_id => Len(current_item) = 2

\* the step is a call of remove_current_group that passes its guards
RemovesGroup ==
    /\ called' = <<"remove_current_group">>
    /\ group_by_id
    /\ current_group_id # NoId

\* the image the last call selected: the path of its last image_selected
LastSelected ==
    IF signalled # <<>> /\ signalled[Len(signalled)][1] = "image_selected"
    THEN signalled[Len(signalled)][2] ELSE NoId

\* the last call has selected an image of the catalog: image_selected was
\* emitted for it and its row is the current one
SelectedInCatalog ==
    /\ LastSelected # NoId
    /\ Has(image_files, LastSelected)
    /\ current_item # NoItem
    /\ PathAt(tree, current_item) = LastSelected

\* the first file of the group that follows id in the sorted keys; any path
\* if id is the last key, where the claim names no next group
AfterGroup(groups, id, path) ==
    LET ids == SortedIds(groups)
        k == IndexOf(ids, id)
    IN  k < Len(ids) => path = GroupOf(groups, ids[k + 1])[1]

\* the image the claim expects after the removal of the current image
ExpectedAfterImage(path) ==
    IF ~group_by_id
    THEN Has(image_files, CurrentImage) =>
             path = image_files'[Min(IndexOf(image_files, CurrentImage),
                                     Len(image_files'))]
    ELSE \A i \in GroupsWith(image_groups_by_id, CurrentImage) :
             LET files == image_groups_by_id[i].files
                 remaining == Remove(files, CurrentImage)
             IN  IF remaining # <<>>
                 THEN path = remaining[Min(IndexOf(files, CurrentImage),
                                           Len(remaining))]
                 ELSE AfterGroup(image_groups_by_id, image_groups_by_id[i].id, path)

\* the image the claim expects after the removal of the current group
ExpectedAfterGroup(path) ==
    HasGroup(image_groups_by_id, current_group_id) =>
        AfterGroup(image_groups_by_id, current_group_id, path)

\* C16: after remove_current_image or remove_current_group, if the catalog
\* still holds an image, an image of the catalog is selected: ungrouped, the
\* image now at the removed index, or the last one; grouped, the remaining
\* file of the same group at the removed position, otherwise the first file
\* of the next group in sorted key order
C16_RemovalSelectsNext ==
    [][(RemovesImage \/ RemovesGroup) /\ image_files' # <<>> =>
          /\ SelectedInCatalog'
          /\ RemovesImage => ExpectedAfterImage(LastSelected')
          /\ RemovesGroup => ExpectedAfterGroup(LastSelected')]_vars

\* the row below a row of a file, in grouped mode: the next file of the
\* group, the first file of the next group, or the row itself at the end
RowBelow(t, item) ==
    IF item[2] < Len(t[item[1]].children) THEN <<item[1], item[2] + 1>>
    ELSE IF item[1] < Len(t) THEN <<item[1] + 1, 1>>
    ELSE item

\* the row above it: the previous file of the group, the last file of the
\* previous group, or the row itself at the start
RowAbove(t, item) ==
    IF item[2] > 1 THEN <<item[1], item[2] - 1>>
    ELSE IF item[1] > 1 THEN <<item[1] - 1, Len(t[item[1] - 1].children)>>
    ELSE item

\* where the claim has a step of the navigation go
NavigatesTo(item) ==
    /\ current_item' = item
    /\ tree' = tree
    /\ item # current_item => selected_items' = {item}
    /\ item # current_item /\ Has(image_files, PathAt(tree, item)) =>
           LastSelected' = PathAt(tree, item)
    /\ item = current_item => signalled' = <<>>

\* the current row is the row of a file in a group, and the list is grouped
OnGroupedFile == group_by_id /\ current_item # NoItem /\ Len(current_item) = 2

\* the current row is a row of the flat list, and the list is ungrouped
OnFlatFile == ~group_by_id /\ current_item # NoItem /\ Len(current_item) = 1

\* C17: in grouped mode navigate_down selects the next file of the group, or
\* the first file of the next group after the group's last file, and
\* navigate_up the previous file, or the last file of the previous group
\* before the group's first file; at the first file of the first group (up)
\* and the last file of the last group (down) the selection is unchanged; in
\* ungrouped mode both are single steps in the flat list, without wrap-around
C17_NavigationSteps ==
    [][/\ called' = <<"navigate_down">> /\ OnGroupedFile =>
             NavigatesTo(RowBelow(tree, current_item))
       /\ called' = <<"navigate_up">> /\ OnGroupedFile =>
             NavigatesTo(RowAbove(tree, current_item))
       /\ called' = <<"navigate_down">> /\ OnFlatFile =>
             NavigatesTo(<<Min(current_item[1] + 1, Len(tree))>>)
       /\ called' = <<"navigate_up">> /\ OnFlatFile =>
             NavigatesTo(<<Max(current_item[1] - 1, 1)>>)]_vars

\* navigate_down has gone from the last file of a group to the first file of
\* the next group, and selected it
C17_Witness ==
    /\ called = <<"navigate_down">>
    /\ group_by_id
    /\ Len(current_item) = 2
    /\ current_item[1] > 1
    /\ current_item[2] = 1
    /\ LastSelected = PathAt(tree, current_item)

----------------------------------------------------------------------------
(* What the claims say of a load *)

\* the text between the first '_v' of a name and the next '.'
VersionText(name) ==
    LET from == FindV(name, 1) + 2
        rest == SubSeq(name, from, Len(name))
    IN  BeforeDot(rest)

\* the version of a name parses as an integer
HasVersion(name) == IsInt(VersionText(name))

\* files in the order the claim gives a group: a name whose version does not
\* parse before every name whose version does, and those by version
InVersionOrder(files) ==
    \A i, j \in 1..Len(files) :
        i < j =>
            /\ HasVersion(files[i]) => HasVersion(files[j])
            /\ HasVersion(files[i]) /\ HasVersion(files[j]) =>
                   ParseInt(VersionText(files[i])) <= ParseInt(VersionText(files[j]))

\* the list has just been loaded in grouped mode
LoadedGrouped == called = <<"load_images">> /\ group_by_id

\* C18: a grouped-mode load puts every file whose name contains '_v' into
\* the group keyed by the text before the first '_v', and orders each group
\* by non-decreasing integer version, the text between the first '_v' and
\* the next '.', with the files whose version does not parse placed first
C18_GroupedByKeyAndVersion ==
    LoadedGrouped =>
        /\ \A i \in 1..Len(scanned) :
               HasV(scanned[i]) =>
                   /\ HasGroup(image_groups_by_id, BeforeV(scanned[i]))
                   /\ Has(GroupOf(image_groups_by_id, BeforeV(scanned[i])), scanned[i])
        /\ \A g \in 1..Len(image_groups_by_id) :
               InVersionOrder(image_groups_by_id[g].files)

\* the list has been loaded in grouped mode, and possibly toggled since
LoadedThenToggled ==
    /\ called \in {<<"load_images">>, <<"on_group_by_id_toggle">>}
    /\ scanned # <<>>

\* C19: no scanned image is lost by grouping: after a load in grouped mode
\* and after any later toggles of the grouping, every image file the scan
\* found is still in the catalog; a file whose name lacks '_v' is listed
\* rather than dropped
C19_NoScannedImageLost ==
    LoadedThenToggled =>
        \A i \in 1..Len(scanned) : Has(image_files, scanned[i])

----------------------------------------------------------------------------
(* What the claims say of the batch selection *)

\* the paths of the selected rows
SelectedPaths == {PathAt(tree, item) : item \in selected_items} \ {NoId}

\* the paths of the batch list
BatchPaths == {batch_selected_items[i] : i \in 1..Len(batch_selected_items)}

\* batch mode is active only while the list is ungrouped and the batch list
\* holds the two or more selected paths
BatchModeJustified ==
    batch_selection_mode =>
        /\ ~group_by_id
        /\ Len(batch_selected_items) >= 2
        /\ Cardinality(selected_items) >= 2
        /\ BatchPaths = SelectedPaths

\* a change of the selection that leaves one row selected turns batch mode
\* off and empties the batch list
SingleSelectionEndsBatch ==
    selected_items' # selected_items /\ Cardinality(selected_items') = 1 =>
        ~batch_selection_mode' /\ batch_selected_items' = <<>>

\* C20: in every reachable state batch mode is active only while the list is
\* ungrouped and the batch list holds the two or more currently selected
\* paths; any selection change that leaves a single item selected turns
\* batch mode off and empties the batch list
C20_BatchModeOnlyWithSelection ==
    [][BatchModeJustified' /\ SingleSelectionEndsBatch]_vars
----------------------------------------------------------------------------
(* Label files as a record finds them: any lines, well formed or not *)

\* the most lines of a label file, where the files are enumerated
MaxLines == 2

\* a second row, of class 1
RowOne == <<T1, TQuarter, THalf, TFifth, TFifth>>

\* a line of 5 fields of which float() rejects the last
RowBadNumber == <<T0, THalf, THalf, TFifth, <<"x">>>>

\* the lines of a label file after line.strip().split(): two rows, a line of
\* 3 fields, a line of 6 fields, a blank line, a line of 5 fields that is
\* no row
LineKinds ==
    { <<T0, THalf, THalf, TFifth, TFifth>>,
      RowOne,
      <<T1, THalf, THalf>>,
      <<T0, THalf, THalf, TFifth, TFifth, THalf>>,
      <<>>,
      RowBadNumber }

FoundFiles ==
    UNION { [1..n -> LineKinds] : n \in 0..MaxLines }

\* YoloLabel(image_path, label_path) on a label file of any lines, or on
\* none: __init__ calls load_labels
InitRead ==
    /\ source_dir = <<"D", "Tanker">> /\ target_dir = <<"T">>
    /\ \E present \in BOOLEAN, content \in FoundFiles :
          LET f0 == WriteFile(<<>>, image_path, ImageBytes)
          IN  /\ present \/ content = <<>>
              /\ fs = IF present THEN WriteFile(f0, label_path, content)
                      ELSE f0
              /\ labels = read_label_file(fs, label_path)
    /\ modified = FALSE
    /\ ops = 0
    /\ ret = Ret("init", TRUE)
    /\ pre = NoPre
    /\ ViewerCreated
    /\ CatalogCreated
    /\ WindowCreated
    /\ zoomed = FALSE

NextRead ==
    \/ load_labels
    \/ add_label
    \/ remove_label

SpecRead == InitRead /\ [][NextRead]_vars

----------------------------------------------------------------------------
(* What the claims say of loading a label file *)

\* a line that is a row: 5 fields, each a number
ValidLine(parts) ==
    Len(parts) = 5 /\ \A i \in 1..5 : IsNumber(parts[i])

\* the rows of the valid lines of a file, in file order
RECURSIVE ValidRows(_)
ValidRows(lines) ==
    IF lines = <<>> THEN <<>>
    ELSE (IF ValidLine(Head(lines)) THEN <<ParseLine(Head(lines))>> ELSE <<>>)
         \o ValidRows(Tail(lines))

\* the rows the label file of the record holds; none when it is missing
RowsOnFile ==
    IF Exists(fs, label_path) THEN ValidRows(fs[label_path]) ELSE <<>>

Loaded == ret.op \in {"init", "load_labels"}

\* C21: after a load the rows of the record are exactly the rows of the
\* 5-field lines of the label file, in file order: a line that is not a row
\* is skipped and does not keep a later valid line from being loaded.
C21_LoadKeepsValidLines == Loaded => labels = RowsOnFile

\* C22: after load_labels on a record whose label file is missing or holds
\* no valid row, the record holds no row, whatever rows it held before.
C22_LoadOfNothingEmpties ==
    (ret.op = "load_labels" /\ RowsOnFile = <<>>) => labels = <<>>
\* the calls of the record that are given an index
IndexOps == {"update_label_class", "remove_label", "update_label_coords"}

\* C23: update_label_class, remove_label and update_label_coords called with
\* an index outside 0..len(rows)-1, negative indexes included, return false
\* and leave the rows and the modified flag as they were.
C23_OutOfRangeIndexIsNoOp ==
    [][(ret'.op \in IndexOps /\ ret'.index \notin 0..(Len(labels) - 1))
         => (~ret'.ok /\ labels' = labels /\ modified' = modified)]_vars

\* a negative index given to a record that holds an edited row
C23_Witness ==
    /\ ret.op \in IndexOps /\ ret.index < 0 /\ ~ret.ok
    /\ labels # <<>> /\ modified
----------------------------------------------------------------------------
(* ui/main_window_new.py: the source directory and its sub-directories *)

(* A directory is the sequence of its components; "" is the empty          *)
(* sequence.  The text of the combo box is modelled as it is after         *)
(* text.strip().                                                           *)

\* os.path.join(directory, name)
SubDir(directory, name) == directory \o <<name>>

\* os.path.dirname(directory)
Parent(directory) ==
    IF directory = NoDir THEN NoDir
    ELSE SubSeq(directory, 1, Len(directory) - 1)

\* os.path.isdir, and os.path.exists of a directory
isdir(directory) == directory \in folders

\* the sub-directory if it exists, or what was found before
Found(source, name, before) ==
    IF isdir(SubDir(source, name)) THEN SubDir(source, name) ELSE before

\* MainWindow.get_images_and_labels_dirs: (images_dir, labels_dir), with
\* NoDir for None
get_images_and_labels_dirs(source) ==
    LET images_dir == Found(source, "images", NoDir)
        labels_dir == Found(source, "labels", NoDir)
    IN  IF images_dir # NoDir /\ labels_dir # NoDir
        THEN <<images_dir, labels_dir>>
        ELSE <<Found(source, "original_snaps", images_dir),
               Found(source, "original_snaps_labels", labels_dir)>>

\* the source directories of the model: two that exist, one that does not
D1 == <<"D1">>
D2 == <<"D2">>
Missing == <<"X">>

\* the names of the sub-directories the code looks for
SubNames == {"images", "labels", "original_snaps", "original_snaps_labels"}

(* The disk gives, for each source image, the source directory it lies    *)
(* in (home), whether the image file exists, and what its label file is:  *)
(* "none" (no file), "empty" (a file without a valid row) or "rows".  The *)
(* images sub-directories of a source directory list its images and its   *)
(* labels sub-directories hold their label files.  An image is named as   *)
(* the list names it.                                                      *)

LabelKinds == {"none", "empty", "rows"}

\* what os.listdir gives for an images directory: by its source directory
Listing(directory) ==
    {name \in DOMAIN disk :
        disk[name].home = Parent(directory) /\ disk[name].image}

\* file_utils.get_corresponding_label_file on the disk d: the kind of the
\* label file it finds, "none" where it returns None
get_corresponding_label_file(d, name, label_dir) ==
    IF isdir(label_dir) /\ Parent(label_dir) = d[name].home
    THEN d[name].label
    ELSE "none"

\* YoloLabel(image_path, label_path), which loads the rows: label_dir is
\* the directory of label_path, NoDir for the default path beside the
\* image, where no label file is; rows tells whether labels is non-empty
YoloLabel(d, name, label_dir) ==
    [image_path |-> name, label_dir |-> label_dir,
     rows |-> get_corresponding_label_file(d, name, label_dir) = "rows"]

\* move_to_target and _move_file_to_category can succeed: the image and the
\* file at label_path exist
CanCopy(d, label) ==
    /\ d[label.image_path].image
    /\ get_corresponding_label_file(d, label.image_path, label.label_dir)
          # "none"

(* The viewer of the window, as far as the handlers of the window read    *)
(* it.  The labels are not edited here: is_modified() is False and        *)
(* _save_current_labels writes nothing.  The modes load_image and         *)
(* clear_image reset are those of ImageViewerWidget.__init__.             *)

View == [current_image |-> current_image,
         current_yolo_label |-> current_yolo_label]

ViewBecomes(v) ==
    /\ current_image' = v.current_image
    /\ current_yolo_label' = v.current_yolo_label

\* ImageViewerWidget.load_image(image_path, label_path), where found is the
\* kind of the file at label_path
load_image(v, d, name, found) ==
    IF ~d[name].image THEN [v EXCEPT !.current_image = NoId]
    ELSE [current_image |-> name,
          current_yolo_label |->
              YoloLabel(d, name, IF found # "none" THEN labels_subdir
                                 ELSE NoDir)]

\* ImageViewerWidget.clear_image
clear_image(v) == [current_image |-> NoId, current_yolo_label |-> NoId]

\* MainWindow.on_image_selected(image_path, image_idx)
on_image_selected(v, d, name) ==
    load_image(v, d, name,
               get_corresponding_label_file(d, name, labels_subdir))

\* MainWindow.on_batch_selected(selected_paths)
on_batch_selected(v, selected_paths) ==
    IF selected_paths = <<>> THEN v ELSE clear_image(v)

\* the slots of the window run on the signals of the list, in order
RECURSIVE Dispatch(_, _, _)
Dispatch(v, d, signals) ==
    IF signals = <<>> THEN v
    ELSE Dispatch(IF Head(signals)[1] = "image_selected"
                  THEN on_image_selected(v, d, Head(signals)[2])
                  ELSE on_batch_selected(v, Head(signals)[2]),
                  d, Tail(signals))

\* dialog: the message boxes of the handlers
WarnNoStructure == "no valid structure"
ErrorSource == "no valid source directory"
ErrorImages == "no images sub-directory"
ErrorLabels == "no labels sub-directory"

\* one more event of the window
WindowEvent(what) ==
    /\ calls < MaxCalls
    /\ calls' = calls + 1
    /\ called' = what

\* the image list as it is, but for the count of events
ListKept ==
    UNCHANGED <<image_files, image_groups_by_id, current_group_id,
                current_group_index, current_image_idx, group_by_id,
                batch_selection_mode, batch_selected_items, tree,
                current_item, selected_items, scanned, signalled>>

\* the record, the modes of the viewer, the disk and the review mode are
\* not involved
SourceFrame ==
    /\ UNCHANGED <<labels, modified, fs, target_dir, ops, ret, pre>>
    /\ UNCHANGED <<viewerVars, folders, is_review_mode, disk>>
    /\ copied' = {}

\* _on_source_dir_changed(text): the text of the combo box has changed
on_source_dir_changed ==
    \E text \in {NoDir, D1, D2, Missing} :
        LET found == get_images_and_labels_dirs(text)
            both == /\ text # NoDir /\ isdir(text)
                    /\ found[1] # NoDir /\ found[2] # NoDir
        IN  /\ source_dir' = text
            /\ images_subdir' = IF both THEN found[1] ELSE images_subdir
            /\ labels_subdir' = IF both THEN found[2] ELSE labels_subdir
            /\ dialog' = NoDialog
            /\ WindowEvent(<<"_on_source_dir_changed", text>>)
            /\ ListKept
            /\ UNCHANGED <<current_image, current_yolo_label>>
            /\ SourceFrame

\* browse_source_dir, where the dialog returns a directory: the entry added
\* to the combo box makes _on_source_dir_changed run for the same directory
browse_source_dir ==
    \E directory \in {D1, D2} :
        LET found == get_images_and_labels_dirs(directory)
            both == found[1] # NoDir /\ found[2] # NoDir
        IN  /\ source_dir' = directory
            /\ images_subdir' = IF both THEN found[1] ELSE images_subdir
            /\ labels_subdir' = IF both THEN found[2] ELSE labels_subdir
            /\ dialog' = IF both THEN NoDialog ELSE WarnNoStructure
            /\ WindowEvent(<<"browse_source_dir", directory>>)
            /\ ListKept
            /\ UNCHANGED <<current_image, current_yolo_label>>
            /\ SourceFrame

\* what MainWindow.load_images rejects, and with which message
Rejection ==
    IF source_dir = NoDir \/ ~isdir(source_dir) THEN ErrorSource
    ELSE IF images_subdir = NoDir \/ ~isdir(images_subdir) THEN ErrorImages
    ELSE IF labels_subdir = NoDir \/ ~isdir(labels_subdir) THEN ErrorLabels
    ELSE NoDialog

\* MainWindow.load_images, the Load button
window_load_images ==
    /\ dialog' = Rejection
    /\ IF Rejection # NoDialog
       THEN /\ WindowEvent(<<"load_images">>)
            /\ ListKept
            /\ UNCHANGED <<current_image, current_yolo_label>>
       ELSE LET w == load_images(List, Listing(images_subdir))
            IN  /\ WindowEvent(<<"load_images", images_subdir, labels_subdir>>)
                /\ ListBecomes(w)
                /\ ViewBecomes(Dispatch(View, disk, w.signalled))
    /\ UNCHANGED <<source_dir, images_subdir, labels_subdir>>
    /\ SourceFrame

\* a_v1.jpg and a_v2.jpg in D1 and b_v1.jpg in D2, each with a label file
\* that has rows
FullDisk ==
    [name \in {A_v1, A_v2, B_v1} |->
        [home |-> IF name = B_v1 THEN D2 ELSE D1, image |-> TRUE,
         label |-> "rows"]]

\* the sub-directories a directory of the disk may hold
Layout(directory, names) == {SubDir(directory, n) : n \in names}

\* a new main window: _set_default_paths takes the source directory of the
\* configuration or of the history and keeps each sub-directory it finds
InitSource ==
    /\ \E n1, n2 \in SUBSET SubNames :
          folders = {D1, D2} \cup Layout(D1, n1) \cup Layout(D2, n2)
    /\ source_dir \in {D1, Missing}
    /\ images_subdir = get_images_and_labels_dirs(source_dir)[1]
    /\ labels_subdir = get_images_and_labels_dirs(source_dir)[2]
    /\ dialog = NoDialog
    /\ disk = FullDisk
    /\ ReviewCreated
    /\ target_dir = <<"T">>
    /\ labels = <<>>
    /\ fs = <<>>
    /\ modified = FALSE
    /\ ops = 0
    /\ ret = Ret("init", TRUE)
    /\ pre = NoPre
    /\ ViewerCreated
    /\ zoomed = FALSE
    /\ CatalogCreated

NextSource ==
    \/ on_source_dir_changed
    \/ browse_source_dir
    \/ window_load_images

SpecSource == InitSource /\ [][NextSource]_vars
----------------------------------------------------------------------------
(* ui/main_window_new.py: classifying and discarding *)

(* A handler is an operator on the record of what it reads and writes:    *)
(* the list, the viewer, the disk, the images it copied to the target and *)
(* the message box it ends with.  move_to_target leaves the source files  *)
(* as they are; whether a copy that can succeed does succeed is an input  *)
(* of the handler.  os.remove is taken to succeed.                         *)

WarnSelectImage == "select an image first"
WarnNoRows == "the image has no label data"
WarnSelectGroup == "select a group first"
WarnNotGrouped == "not in grouped mode"
WarnNothingSelected == "no image selected"
WarnNothingToDiscard == "nothing to discard"
WarnGroupedOnly == "only in flat mode"
WarnPartly == "some files failed"
ErrorMove == "the move failed"

Window ==
    [list |-> List, view |-> View, disk |-> disk, copied |-> {},
     dialog |-> NoDialog]

WindowBecomes(m) ==
    /\ ListBecomes(m.list)
    /\ ViewBecomes(m.view)
    /\ disk' = m.disk
    /\ copied' = m.copied
    /\ dialog' = m.dialog

\* QMessageBox.warning or QMessageBox.critical
Warned(m, message) == [m EXCEPT !.dialog = message]

\* the list before a call: what it emits is counted from here
Fresh(w) == [w EXCEPT !.signalled = <<>>]

\* a call of the list that leaves it as w: on_image_selected and
\* on_batch_selected run on the signals the call emitted
Calls(m, w) ==
    [m EXCEPT !.list = [w EXCEPT !.signalled = m.list.signalled \o @],
              !.view = Dispatch(@, m.disk, w.signalled)]

\* the elements of a list of paths
PathSet(paths) == {paths[i] : i \in 1..Len(paths)}

\* os.remove of each image that exists and of the label file that
\* get_corresponding_label_file finds for it
RemoveSource(d, names) ==
    [name \in DOMAIN d |->
        IF name \notin names THEN d[name]
        ELSE [d[name] EXCEPT
                 !.image = FALSE,
                 !.label = IF isdir(labels_subdir)
                              /\ Parent(labels_subdir) = d[name].home
                           THEN "none" ELSE @]]

\* if self.is_review_mode: the removal of the source files
DeleteSourceAlways(d, names) == RemoveSource(d, names)
DeleteSource(d, names) ==
    IF is_review_mode THEN RemoveSource(d, names) ELSE d

\* clear_current_display
clear_current_display(m) == [m EXCEPT !.view = clear_image(@)]

\* an image is shown and its label object is there
Shown(m) ==
    m.view.current_image # NoId /\ m.view.current_yolo_label # NoId

\* self.on_image_selected(path, idx), called by a handler
ShowImage(m, path) ==
    [m EXCEPT !.view = on_image_selected(@, m.disk, path)]

\* the end of _select_image_at_index, where sel is what
\* select_tree_item_by_path gave for path
SelectedAt(m, sel, path) ==
    IF sel.ok THEN ShowImage(Calls(m, sel.w), path) ELSE Calls(m, sel.w)

\* _select_image_at_index(target_idx); without a target_idx it selects
\* index 0, as it does for target_idx 0
select_image_at_index(m, target_idx) ==
    LET files == m.list.image_files
        final_idx == Min(target_idx, Len(files) - 1)
        path == files[final_idx + 1]
    IN  IF files = <<>> THEN m
        ELSE SelectedAt(m,
                        select_tree_item_by_path(
                            [Fresh(m.list) EXCEPT
                                !.current_image_idx = final_idx],
                            path),
                        path)

\* image_files.index(first_selected_path), or 0
StartIdx(m, selected_paths) ==
    IF Has(m.list.image_files, selected_paths[1])
    THEN IndexOf(m.list.image_files, selected_paths[1]) - 1
    ELSE 0

\* what a classify loop does with an image that is not the one shown:
\* it is skipped without a label file or without rows
LoopLabel(m, name) == YoloLabel(m.disk, name, labels_subdir)

\* the images of names for which the move is tried and returns success,
\* where moved holds those whose copy does not fail
Succeeded(m, names, moved, needs_rows) ==
    {name \in names \cap moved :
        /\ get_corresponding_label_file(m.disk, name, labels_subdir) # "none"
        /\ needs_rows => LoopLabel(m, name).rows
        /\ CanCopy(m.disk, LoopLabel(m, name))}

\* _process_labeling without grouping: the image shown
process_labeling_simple(m, moved) ==
    LET label == m.view.current_yolo_label
        name == label.image_path
        ok == name \in moved
        m1 == [m EXCEPT !.copied = {name},
                        !.disk = DeleteSource(@, {name})]
    IN  IF ~Shown(m) THEN Warned(m, WarnSelectImage)
        ELSE IF ~label.rows THEN Warned(m, WarnNoRows)
        ELSE IF ~(ok /\ CanCopy(m.disk, label)) THEN Warned(m, ErrorMove)
        ELSE Calls(clear_current_display(m1),
                   remove_current_image(Fresh(m.list)))

\* _process_labeling with grouping: the files of the current group; the
\* image shown is moved with its label object, whatever rows it has
process_labeling_group(m, moved) ==
    LET groups == m.list.image_groups_by_id
        group_id == m.list.current_group_id
        names == PathSet(GroupOf(groups, group_id))
        label == m.view.current_yolo_label
        shown == IF Shown(m) THEN {label.image_path} \cap names ELSE {}
        done == {name \in shown \cap moved : CanCopy(m.disk, label)}
                   \cup Succeeded(m, names \ shown, moved, TRUE)
        m1 == [m EXCEPT !.copied = done,
                        !.disk = DeleteSource(@, names),
                        !.dialog = IF done = names THEN NoDialog
                                   ELSE WarnPartly]
    IN  IF group_id = NoId THEN Warned(m, WarnSelectGroup)
        ELSE IF ~HasGroup(groups, group_id) THEN m
        ELSE Calls(clear_current_display(m1),
                   remove_current_group(Fresh(m.list)))

\* _process_labeling
process_labeling(m, moved) ==
    IF ~m.list.group_by_id
    THEN process_labeling_simple(m, moved)
    ELSE process_labeling_group(m, moved)

\* _process_batch_labeling (needs_rows) and _auto_classify_batch_images,
\* which moves an image without rows to the background category
process_batch(m, moved, needs_rows) ==
    LET selected_paths == m.list.batch_selected_items
        names == PathSet(selected_paths)
        done == Succeeded(m, names, moved, needs_rows)
        m1 == [m EXCEPT !.copied = done,
                        !.disk = DeleteSource(@, names),
                        !.dialog = IF done = names THEN NoDialog
                                   ELSE WarnPartly]
    IN  IF selected_paths = <<>> THEN Warned(m, WarnNothingSelected)
        ELSE select_image_at_index(
                 Calls(m1, remove_batch_selected_images(Fresh(m.list))),
                 StartIdx(m, selected_paths))

\* _auto_classify_single_image, behind the test of on_auto_classify_requested
auto_classify_single_image(m, moved) ==
    LET label == m.view.current_yolo_label
        name == label.image_path
        ok == name \in moved
        m1 == [m EXCEPT !.copied = {name},
                        !.disk = DeleteSource(@, {name})]
    IN  IF ~Shown(m) THEN Warned(m, WarnSelectImage)
        ELSE IF ~(ok /\ CanCopy(m.disk, label)) THEN Warned(m, ErrorMove)
        ELSE Calls(clear_current_display(m1),
                   remove_current_image(Fresh(m.list)))

\* _discard_single_image(delete_files=self.is_review_mode), behind the test
\* of on_discard_single_requested
discard_single_image(m) ==
    LET name == m.view.current_yolo_label.image_path
        m1 == [m EXCEPT !.disk = DeleteSource(@, {name})]
    IN  IF ~Shown(m) THEN Warned(m, WarnSelectImage)
        ELSE Calls(clear_current_display(m1),
                   remove_current_image(Fresh(m.list)))

\* _discard_group(delete_files=self.is_review_mode), behind the tests of
\* on_discard_group_requested
discard_group(m) ==
    LET groups == m.list.image_groups_by_id
        group_id == m.list.current_group_id
        names == PathSet(GroupOf(groups, group_id))
        m1 == [m EXCEPT !.disk = DeleteSource(@, names)]
    IN  IF ~m.list.group_by_id THEN Warned(m, WarnNotGrouped)
        ELSE IF group_id = NoId THEN Warned(m, WarnSelectGroup)
        ELSE IF ~HasGroup(groups, group_id)
        THEN Warned(m, WarnNothingToDiscard)
        ELSE Calls(clear_current_display(m1),
                   remove_current_group(Fresh(m.list)))

\* _discard_batch_images
discard_batch_images(m) ==
    LET selected_paths == m.list.batch_selected_items
        m1 == [m EXCEPT !.disk = DeleteSource(@, PathSet(selected_paths))]
    IN  IF selected_paths = <<>> THEN Warned(m, WarnNothingSelected)
        ELSE select_image_at_index(
                 Calls(m1, remove_batch_selected_images(Fresh(m.list))),
                 StartIdx(m, selected_paths))

\* get_current_and_previous_images
get_current_and_previous_images(w) ==
    IF w.group_by_id THEN <<>>
    ELSE IF w.current_image_idx < 0
            \/ w.current_image_idx >= Len(w.image_files) THEN <<>>
    ELSE SubSeq(w.image_files, 1, w.current_image_idx + 1)

\* on_key_u_shortcut_activated and _discard_images_by_paths
discard_images_by_paths(m) ==
    LET image_paths == get_current_and_previous_images(m.list)
        m1 == [m EXCEPT !.disk = DeleteSource(@, PathSet(image_paths))]
        w == [Fresh(m.list) EXCEPT !.image_files = RemoveAll(@, image_paths)]
    IN  IF m.list.group_by_id THEN Warned(m, WarnGroupedOnly)
        ELSE IF image_paths = <<>> THEN Warned(m, WarnNothingToDiscard)
        ELSE select_image_at_index(
                 Calls(clear_current_display(m1), update_tree_view(w)),
                 0)

\* the record and the modes of the viewer are not involved, and the
\* directories stay
ReviewFrame ==
    /\ UNCHANGED <<labels, modified, fs, target_dir, ops, ret, pre>>
    /\ UNCHANGED <<viewerVars, folders>>
    /\ UNCHANGED <<source_dir, images_subdir, labels_subdir>>

\* a handler leaves the window as m
Handled(m) ==
    /\ WindowBecomes(m)
    /\ UNCHANGED is_review_mode
    /\ ReviewFrame

\* the copies that do not fail, for the handlers that copy
Copies == SUBSET DOMAIN disk

\* on_review_mode_toggle: set_review_mode of the list rebuilds the tree
on_review_mode_toggle ==
    /\ is_review_mode' = ~is_review_mode
    /\ WindowEvent(<<"on_review_mode_toggle">>)
    /\ WindowBecomes(Calls(Window, update_tree_view(Fresh(List))))
    /\ ReviewFrame

\* on_group_by_id_toggle, with the slots of the window
group_by_id_toggled ==
    /\ WindowEvent(<<"on_group_by_id_toggle">>)
    /\ Handled(Calls(Window, on_group_by_id_toggle(Fresh(List))))

\* a click on a row of the list, with the slots of the window
row_clicked ==
    \E item \in Items(tree), ctrl \in BOOLEAN :
        /\ WindowEvent(<<"click", item, ctrl>>)
        /\ Handled(Calls(Window, RowClicked(Fresh(List), item, ctrl)))

\* on_ship_type_selected: a ship type is chosen
on_ship_type_selected ==
    \E moved \in Copies :
        /\ WindowEvent(<<"on_ship_type_selected", moved>>)
        /\ Handled(IF batch_selection_mode
                   THEN process_batch(Window, moved, TRUE)
                   ELSE process_labeling(Window, moved))

\* on_auto_classify_requested
on_auto_classify_requested ==
    \E moved \in Copies :
        /\ WindowEvent(<<"on_auto_classify_requested", moved>>)
        /\ Handled(IF batch_selection_mode
                   THEN process_batch(Window, moved, FALSE)
                   ELSE IF current_image = NoId
                   THEN Warned(Window, WarnSelectImage)
                   ELSE auto_classify_single_image(Window, moved))

\* on_discard_single_requested
on_discard_single_requested ==
    /\ WindowEvent(<<"on_discard_single_requested">>)
    /\ Handled(IF batch_selection_mode THEN discard_batch_images(Window)
               ELSE IF current_image = NoId
               THEN Warned(Window, WarnSelectImage)
               ELSE discard_single_image(Window))

\* on_discard_group_requested
on_discard_group_requested ==
    /\ WindowEvent(<<"on_discard_group_requested">>)
    /\ Handled(IF batch_selection_mode THEN discard_batch_images(Window)
               ELSE discard_group(Window))

\* on_key_u_shortcut_activated
on_key_u_shortcut_activated ==
    /\ WindowEvent(<<"on_key_u_shortcut_activated">>)
    /\ Handled(discard_images_by_paths(Window))

\* the kinds of label file the images of the source directory start with
ReviewDisks ==
    {[name \in {A_v1, A_v2, B_v1} |->
         [home |-> D1, image |-> TRUE,
          label |-> IF name = A_v1 THEN k1
                    ELSE IF name = A_v2 THEN k2 ELSE "rows"]] :
        k1 \in LabelKinds, k2 \in LabelKinds}

\* a new main window whose default source directory holds images and
\* labels, with three images
InitReview ==
    /\ folders = {D1, SubDir(D1, "images"), SubDir(D1, "labels")}
    /\ source_dir = D1
    /\ images_subdir = get_images_and_labels_dirs(source_dir)[1]
    /\ labels_subdir = get_images_and_labels_dirs(source_dir)[2]
    /\ dialog = NoDialog
    /\ disk \in ReviewDisks
    /\ ReviewCreated
    /\ target_dir = <<"T">>
    /\ labels = <<>>
    /\ fs = <<>>
    /\ modified = FALSE
    /\ ops = 0
    /\ ret = Ret("init", TRUE)
    /\ pre = NoPre
    /\ ViewerCreated
    /\ zoomed = FALSE
    /\ CatalogCreated

NextReview ==
    \/ window_load_images
    \/ on_review_mode_toggle
    \/ group_by_id_toggled
    \/ row_clicked
    \/ on_ship_type_selected
    \/ on_auto_classify_requested
    \/ on_discard_single_requested
    \/ on_discard_group_requested
    \/ on_key_u_shortcut_activated

SpecReview == InitReview /\ [][NextReview]_vars
----------------------------------------------------------------------------
(* What the claims say of the source directory *)

\* the two patterns of a source directory: an images and a labels directory
Patterns ==
    {<<"images", "labels">>, <<"original_snaps", "original_snaps_labels">>}

\* the directory holds both sub-directories of the pattern
Complete(directory, pattern) ==
    /\ SubDir(directory, pattern[1]) \in folders
    /\ SubDir(directory, pattern[2]) \in folders

\* the directory exists and matches a complete pattern
ValidSource(directory) ==
    /\ directory \in folders
    /\ \E pattern \in Patterns : Complete(directory, pattern)

\* the step is a click on Load
Loads == called'[1] = "load_images" /\ calls' = calls + 1

\* the click on Load handed the directories to the image list
Accepted == Loads /\ Len(called') = 3

CatalogKept == UNCHANGED <<image_files, image_groups_by_id, tree>>

\* C24: a click on Load is accepted only for a source directory that holds
\* images/ with labels/ or original_snaps/ with original_snaps_labels/; the
\* two directories handed to the list are those of one complete pattern; for
\* a source directory that matches no complete pattern the click shows a
\* message and leaves the catalog as it was.
C24_SourceAcceptedByOnePattern ==
    [][/\ Accepted =>
            \E pattern \in Patterns :
                /\ Complete(source_dir, pattern)
                /\ called'[2] = SubDir(source_dir, pattern[1])
                /\ called'[3] = SubDir(source_dir, pattern[2])
       /\ (Loads /\ ~ValidSource(source_dir)) =>
            dialog' # NoDialog /\ CatalogKept]_vars

\* the sub-directories, where resolved, are those of the source directory
SubdirsOfSource ==
    /\ images_subdir # NoDir => Parent(images_subdir) = source_dir
    /\ labels_subdir # NoDir => Parent(labels_subdir) = source_dir

\* C27: the resolved images and labels directories are sub-directories of
\* the source directory selected now; after the source directory is changed
\* to one without a valid structure a click on Load is rejected and loads
\* nothing from the sub-directories of a source directory selected before.
C27_SubdirsFollowSource ==
    /\ []SubdirsOfSource
    /\ [][/\ Accepted => /\ Parent(called'[2]) = source_dir
                         /\ Parent(called'[3]) = source_dir
          /\ (Loads /\ ~ValidSource(source_dir)) => ~Accepted]_vars
----------------------------------------------------------------------------
(* What the claims say of the box a drag stores *)

\* the row lies inside the image: center - size / 2 >= 0 and
\* center + size / 2 <= 1 on both axes, in thousandths
InsideImage(row) ==
    /\ 2 * row[2] - row[4] >= 0 /\ 2 * row[2] + row[4] <= 2000
    /\ 2 * row[3] - row[5] >= 0 /\ 2 * row[3] + row[5] <= 2000

\* C28: a box that lies inside the image before a step of a drag (a pointer
\* move or the release) lies inside the image after it.
C28_DraggedBoxStaysInside ==
    [][(is_dragging /\ event'.kind \in {"move", "release"}) =>
          \A i \in 1..Len(labels) :
              (i <= Len(labels') /\ InsideImage(labels[i]))
                  => InsideImage(labels'[i])]_vars
----------------------------------------------------------------------------
(* What the claims say of the catalog as a whole *)

\* the last call was a load of a directory that lists no image file
LoadedNothing == called = <<"load_images">> /\ scanned = <<>>

\* C29: after a load of a directory that holds no image file the catalog is
\* empty, with grouping on or off: no file, no group and no row of the tree
\* is left from the directory loaded before.
C29_EmptyDirectoryEmptiesCatalog ==
    LoadedNothing =>
        image_files = <<>> /\ image_groups_by_id = <<>> /\ tree = <<>>

\* the files of all groups, group by group
GroupedFiles == Flatten(image_groups_by_id)

\* the sequence holds no element twice
NoRepeat(seq) == \A i, j \in 1..Len(seq) : seq[i] = seq[j] => i = j

\* C30: with grouping on, image_files holds exactly the files of the groups
\* of image_groups_by_id, no file is in two groups, and no group is empty.
C30_GroupedCatalogConsistent ==
    group_by_id =>
        /\ {image_files[i] : i \in 1..Len(image_files)}
              = {GroupedFiles[i] : i \in 1..Len(GroupedFiles)}
        /\ NoRepeat(GroupedFiles)
        /\ \A g \in 1..Len(image_groups_by_id) :
              image_groups_by_id[g].files # <<>>
----------------------------------------------------------------------------
(* What the claims say of the review mode *)

\* the handlers that classify, and those that discard
ClassifyOps == {"on_ship_type_selected", "on_auto_classify_requested"}
DiscardOps ==
    {"on_discard_single_requested", "on_discard_group_requested",
     "on_key_u_shortcut_activated"}

\* this step is a handler of ops
Handles(ops_) == calls' = calls + 1 /\ called'[1] \in ops_

\* C25: while review mode is off, no classify, auto-classify or discard
\* handler (single image, group or batch) deletes a source image or a source
\* label file: the disk stays as it is, and the catalog only loses entries.
C25_NoDeletionOutsideReviewMode ==
    [][(~is_review_mode /\ Handles(ClassifyOps \cup DiscardOps)) =>
           /\ disk' = disk
           /\ PathSet(image_files') \subseteq PathSet(image_files)]_vars

\* review mode is off, a ship type has been chosen, an image was copied to
\* the target and left the catalog, and its source files are still there
C25_Witness ==
    /\ ~is_review_mode
    /\ called[1] = "on_ship_type_selected"
    /\ copied # {}
    /\ \A name \in copied :
          /\ name \notin PathSet(image_files)
          /\ disk[name].image
          /\ disk[name].label = "rows"

\* C26: in review mode a classify handler (single image, group, batch or
\* batch auto-classify) deletes the source files of an image only if the
\* copy of that image returned success.
C26_DeletionOnlyAfterCopy ==
    [][Handles(ClassifyOps) =>
           \A name \in DOMAIN disk :
               disk'[name] # disk[name] => name \in copied']_vars

============================================================================
